---- MODULE Spec2Model ----
\* Model of the delta pipeline of vyzkumdata: utils.standardize_hand_columns and
\* utils.compute_deltas, and the qualitative report of thematic_analysis:
\* analyze_user_strategy, get_matching_quotes and generate_qualitative_insights.
\*
\* Conventions of the model
\*   - a number is a fixed-point integer in tenths (0.5 is 5, 1.5 is 15), so the
\*     thresholds 0.3, 0.8, 1.0 and 1.5 of the classifier are the integers 3, 8, 10, 15;
\*   - a nullable cell is NaN (the empty tuple) or a one-element tuple <<v>>;
\*   - string literals are limited to Latin-1, so a Czech letter outside it is written
\*     without its caron or ring (as in "strední", "prídav" and "poradí"), and the
\*     bullet of the report is written "*";
\*   - a Python str built by concatenation or an f-string is the sequence of its pieces;
\*   - a DataFrame is [columns |-> sequence of names, rows |-> sequence of rows], a
\*     row being a function from column names to cells.
EXTENDS Integers, Sequences, FiniteSets, TLC

VARIABLES
    hand_df,     \* placements table passed to compute_deltas
    vybrana,     \* baseline table passed to compute_deltas
    deltas_all,  \* result of compute_deltas / population table of the classifier
    user_data,   \* one participant's rows, passed to analyze_user_strategy
    analysis,    \* the dict returned by analyze_user_strategy
    thematic_df,      \* the thematic codebook passed to get_matching_quotes
    matching_quotes,  \* the list returned by get_matching_quotes
    insights,         \* the str returned by generate_qualitative_insights
    df_in,       \* the table passed to standardize_hand_columns, as read from its file
    df_out,      \* the table it returned
    selected_id, \* the participant ID requested from app.main
    stats,       \* the means app.main computes for the metrics
    pc           \* position in the pipeline

vars ==
    <<hand_df, vybrana, deltas_all, user_data, analysis,
      thematic_df, matching_quotes, insights, df_in, df_out,
      selected_id, stats, pc>>

-----------------------------------------------------------------------------
\* Bounds of the model.

MaxHand == 2
MaxBase == 2
MaxWords == 3
MaxTrials == 5
MaxEntries == 4
MaxColumns == 2

-----------------------------------------------------------------------------
\* Cells, strings and tables.

NaN == <<>>

isna(c) == c = NaN

\* The cell holding the whole number x (1 is 10 tenths)
Num(x) == <<10 * x>>

EmptyFrame == [columns |-> <<>>, rows |-> <<>>]

EmptyDict == <<>>

\* A column name as its sequence of characters (Python str), for the names that occur.
Chars ==
    ("Word" :> <<"W","o","r","d">>) @@
    ("Slovo" :> <<"S","l","o","v","o">>) @@
    ("Adjective" :> <<"A","d","j","e","c","t","i","v","e">>) @@
    ("Valence" :> <<"V","a","l","e","n","c","e">>) @@
    ("Arousal" :> <<"A","r","o","u","s","a","l">>) @@
    ("prídav" :> <<"p","r","í","d","a","v">>) @@
    ("adjekt" :> <<"a","d","j","e","k","t">>) @@
    ("slovo" :> <<"s","l","o","v","o">>) @@
    ("word" :> <<"w","o","r","d">>) @@
    ("Adjektivum" :> <<"A","d","j","e","k","t","i","v","u","m">>) @@
    ("SLOVO" :> <<"S","L","O","V","O">>) @@
    ("Prídavné jméno" :> <<"P","r","í","d","a","v","n","é"," ","j","m","é","n","o">>) @@
    ("ID" :> <<"I","D">>) @@
    ("Term" :> <<"T","e","r","m">>) @@
    ("Pos X" :> <<"P","o","s"," ","X">>) @@
    ("Pos Y" :> <<"P","o","s"," ","Y">>) @@
    ("Pos Z" :> <<"P","o","s"," ","Z">>) @@
    ("First reaction time" :> <<"F","i","r","s","t"," ","r","e","a","c","t","i","o","n"," ","t","i","m","e">>) @@
    ("Total reaction time" :> <<"T","o","t","a","l"," ","r","e","a","c","t","i","o","n"," ","t","i","m","e">>) @@
    ("Order" :> <<"O","r","d","e","r">>) @@
    ("Respondent" :> <<"R","e","s","p","o","n","d","e","n","t">>) @@
    ("participant" :> <<"p","a","r","t","i","c","i","p","a","n","t">>) @@
    ("pojem" :> <<"p","o","j","e","m">>) @@
    ("x" :> <<"x">>) @@
    ("XPOS" :> <<"X","P","O","S">>) @@
    ("pos_y" :> <<"p","o","s","_","y">>) @@
    ("Z" :> <<"Z">>) @@
    ("POS X (cm)" :> <<"P","O","S"," ","X"," ","(","c","m",")">>) @@
    ("První reakce" :> <<"P","r","v","n","í"," ","r","e","a","k","c","e">>) @@
    ("Celkový cas" :> <<"C","e","l","k","o","v","ý"," ","c","a","s">>) @@
    ("Poradí" :> <<"P","o","r","a","d","í">>) @@
    ("Trial" :> <<"T","r","i","a","l">>) @@
    ("Participant ID" :> <<"P","a","r","t","i","c","i","p","a","n","t"," ","I","D">>) @@
    ("Index" :> <<"I","n","d","e","x">>) @@
    ("Notes" :> <<"N","o","t","e","s">>) @@
    ("id" :> <<"i","d">>) @@
    ("respondent" :> <<"r","e","s","p","o","n","d","e","n","t">>) @@
    ("term" :> <<"t","e","r","m">>) @@
    ("pos x" :> <<"p","o","s"," ","x">>) @@
    ("pos_x" :> <<"p","o","s","_","x">>) @@
    ("xpos" :> <<"x","p","o","s">>) @@
    ("pos y" :> <<"p","o","s"," ","y">>) @@
    ("y" :> <<"y">>) @@
    ("ypos" :> <<"y","p","o","s">>) @@
    ("pos z" :> <<"p","o","s"," ","z">>) @@
    ("z" :> <<"z">>) @@
    ("pos_z" :> <<"p","o","s","_","z">>) @@
    ("zpos" :> <<"z","p","o","s">>) @@
    ("first reaction time" :> <<"f","i","r","s","t"," ","r","e","a","c","t","i","o","n"," ","t","i","m","e">>) @@
    ("první" :> <<"p","r","v","n","í">>) @@
    ("total reaction time" :> <<"t","o","t","a","l"," ","r","e","a","c","t","i","o","n"," ","t","i","m","e">>) @@
    ("celkov" :> <<"c","e","l","k","o","v">>) @@
    ("poradí" :> <<"p","o","r","a","d","í">>) @@
    ("order" :> <<"o","r","d","e","r">>) @@
    ("trial" :> <<"t","r","i","a","l">>)

UpperToLower ==
    ("A" :> "a") @@ ("B" :> "b") @@ ("C" :> "c") @@ ("D" :> "d") @@ ("E" :> "e") @@
    ("F" :> "f") @@ ("G" :> "g") @@ ("H" :> "h") @@ ("I" :> "i") @@ ("J" :> "j") @@
    ("K" :> "k") @@ ("L" :> "l") @@ ("M" :> "m") @@ ("N" :> "n") @@ ("O" :> "o") @@
    ("P" :> "p") @@ ("Q" :> "q") @@ ("R" :> "r") @@ ("S" :> "s") @@ ("T" :> "t") @@
    ("U" :> "u") @@ ("V" :> "v") @@ ("W" :> "w") @@ ("X" :> "x") @@ ("Y" :> "y") @@
    ("Z" :> "z") @@ ("Í" :> "í") @@ ("É" :> "é")

\* str.lower()
lower(cs) ==
    [i \in 1..Len(cs) |-> IF cs[i] \in DOMAIN UpperToLower THEN UpperToLower[cs[i]] ELSE cs[i]]

\* k in s  (substring test of Python str)
contains(k, s) ==
    \E i \in 0..(Len(s) - Len(k)) : \A j \in 1..Len(k) : s[i + j] = k[j]

\* DataFrame.rename(columns={old: new})
rename(df, old, new) ==
    LET ren(c) == IF c = old THEN new ELSE c
        newcols == [i \in 1..Len(df.columns) |-> ren(df.columns[i])]
        oldof(c) == IF c = new THEN old ELSE c
    IN  [columns |-> newcols,
         rows |-> [i \in 1..Len(df.rows) |->
                     [c \in {newcols[j] : j \in 1..Len(newcols)} |-> df.rows[i][oldof(c)]]]]

\* Series of one column
Col(df, c) == [i \in 1..Len(df.rows) |-> df.rows[i][c]]

-----------------------------------------------------------------------------
\* utils.py

\* MAP_AROUSAL without its capitalized keys
MAP_AROUSAL_lowercase_only ==
    ("nízký" :> 1) @@ ("strední" :> 2) @@ ("vysoký" :> 3)

MAP_AROUSAL ==
    ("nízký" :> 1) @@ ("strední" :> 2) @@ ("vysoký" :> 3) @@
    ("Nízký" :> 1) @@ ("Strední" :> 2) @@ ("Vysoký" :> 3)

MAP_VALENCE ==
    ("negativní" :> -1) @@ ("neutrální" :> 0) @@ ("pozitivní" :> 1) @@
    ("Negativní" :> -1) @@ ("Neutrální" :> 0) @@ ("Pozitivní" :> 1)

\* map with 0 for a label that is no key
map_unknown_to_zero(cell, d) ==
    IF isna(cell) THEN NaN
    ELSE IF cell[1] \in DOMAIN d THEN Num(d[cell[1]]) ELSE Num(0)

\* Series.map(dict) on one cell: a key of the dict gives its value, anything else NaN
map(cell, d) ==
    IF isna(cell) THEN NaN
    ELSE IF cell[1] \in DOMAIN d THEN Num(d[cell[1]]) ELSE NaN

\* sub with its operands exchanged
sub_swapped(a, b) == IF isna(a) \/ isna(b) THEN NaN ELSE <<b[1] - a[1]>>

\* Series - Series on one cell: NaN propagates
sub(a, b) == IF isna(a) \/ isna(b) THEN NaN ELSE <<a[1] - b[1]>>

WordAliases == <<"prídav", "adjekt", "slovo", "word">>

\* _detect_word_col returning the last column that contains an alias
_detect_word_col_last_hit(v) ==
    LET hit(c) == \E k \in 1..Len(WordAliases) :
                      contains(Chars[WordAliases[k]], lower(Chars[c]))
        hits == {i \in 1..Len(v.columns) : hit(v.columns[i])}
    IN  IF hits # {}
        THEN v.columns[CHOOSE i \in hits : \A j \in hits : i >= j]
        ELSE v.columns[1]

\* utils.py lines 40-44: the first column whose lowercased name contains an alias,
\* else the first column
_detect_word_col(v) ==
    LET hit(c) == \E k \in 1..Len(WordAliases) :
                      contains(Chars[WordAliases[k]], lower(Chars[c]))
        hits == {i \in 1..Len(v.columns) : hit(v.columns[i])}
    IN  IF hits # {}
        THEN v.columns[CHOOSE i \in hits : \A j \in hits : i <= j]
        ELSE v.columns[1]

\* The rows of the right table whose key equals the left row's key, in right order
MatchingRows(h, v) == SelectSeq(v.rows, LAMBDA b : b["Word"] = h["Term"])

\* LeftJoinRow of an inner join: an unmatched row is dropped
LeftJoinRow_inner(h, v) ==
    LET m == MatchingRows(h, v)
    IN  [k \in 1..Len(m) |-> h @@ m[k]]

\* One left row of DataFrame.merge(how="left"): the row joined to each matching right
\* row, or, with no match, the row once with NaN in the right table's columns
LeftJoinRow(h, v) ==
    LET m == MatchingRows(h, v)
        vcols == {v.columns[j] : j \in 1..Len(v.columns)}
    IN  IF m = <<>>
        THEN << h @@ [c \in vcols |-> NaN] >>
        ELSE [k \in 1..Len(m) |-> h @@ m[k]]

RECURSIVE ConcatRows(_, _, _)
ConcatRows(rows, v, i) ==
    IF i > Len(rows) THEN <<>>
    ELSE LeftJoinRow(rows[i], v) \o ConcatRows(rows, v, i + 1)

\* hand_df.merge(v, left_on="Term", right_on="Word", how="left")
merge(hand, v) ==
    [columns |-> hand.columns \o v.columns,
     rows |-> ConcatRows(hand.rows, v, 1)]

\* df[name] = series
assign(df, name, series) ==
    [columns |-> IF \E j \in 1..Len(df.columns) : df.columns[j] = name
                 THEN df.columns ELSE Append(df.columns, name),
     rows |-> [i \in 1..Len(df.rows) |-> (name :> series[i]) @@ df.rows[i]]]

\* utils.py lines 52-53 raise KeyError: merged["Arousal"] or merged["Valence"] names a
\* column that the merged table lacks, as when the baseline column renamed to "Word"
\* at line 49 was Arousal or Valence itself
raises_KeyError(hand, vyb) ==
    LET word_col == _detect_word_col(vyb)
        merged_columns ==
            {hand.columns[j] : j \in 1..Len(hand.columns)} \cup
            {IF vyb.columns[j] = word_col THEN "Word" ELSE vyb.columns[j] :
                j \in 1..Len(vyb.columns)}
    IN  "Arousal" \notin merged_columns \/ "Valence" \notin merged_columns

\* compute_deltas with a baseline of zero and a delta for dominance (Pos Y) as well
compute_deltas_with_dominance(hand, vyb) ==
    LET word_col == _detect_word_col(vyb)
        v == rename(vyb, word_col, "Word")
        m0 == merge(hand, v)
        m1 == assign(m0, "baseline_arousal",
                     [i \in 1..Len(m0.rows) |-> map(Col(m0, "Arousal")[i], MAP_AROUSAL)])
        m2 == assign(m1, "baseline_valence",
                     [i \in 1..Len(m1.rows) |-> map(Col(m1, "Valence")[i], MAP_VALENCE)])
        m3 == assign(m2, "delta_valence",
                     [i \in 1..Len(m2.rows) |->
                         sub(Col(m2, "Pos X")[i], Col(m2, "baseline_valence")[i])])
        m4 == assign(m3, "delta_arousal",
                     [i \in 1..Len(m3.rows) |->
                         sub(Col(m3, "Pos Z")[i], Col(m3, "baseline_arousal")[i])])
    IN  assign(m4, "delta_dominance",
               [i \in 1..Len(m4.rows) |-> sub(Col(m4, "Pos Y")[i], Num(0))])

\* utils.py lines 46-58, when nothing is raised
compute_deltas(hand, vyb) ==
    LET word_col == _detect_word_col(vyb)
        v == rename(vyb, word_col, "Word")
        m0 == merge(hand, v)
        m1 == assign(m0, "baseline_arousal",
                     [i \in 1..Len(m0.rows) |-> map(Col(m0, "Arousal")[i], MAP_AROUSAL)])
        m2 == assign(m1, "baseline_valence",
                     [i \in 1..Len(m1.rows) |-> map(Col(m1, "Valence")[i], MAP_VALENCE)])
        m3 == assign(m2, "delta_valence",
                     [i \in 1..Len(m2.rows) |->
                         sub(Col(m2, "Pos X")[i], Col(m2, "baseline_valence")[i])])
        m4 == assign(m3, "delta_arousal",
                     [i \in 1..Len(m3.rows) |->
                         sub(Col(m3, "Pos Z")[i], Col(m3, "baseline_arousal")[i])])
    IN  m4

\* rename_target with the one-letter axis names matched as substrings
rename_target_axis_substring(c) ==
    LET lc == lower(Chars[c])
        is(names) == \E n \in names : lc = Chars[n]
        has(k) == contains(Chars[k], lc)
    IN  IF is({"id", "respondent", "participant"}) THEN "ID"
        ELSE IF is({"term", "slovo", "pojem", "word"}) THEN "Term"
        ELSE IF has("pos x") \/ has("x") \/ has("pos_x") \/ has("xpos") THEN "Pos X"
        ELSE IF has("pos y") \/ has("y") \/ has("pos_y") \/ has("ypos") THEN "Pos Y"
        ELSE IF has("pos z") \/ has("z") \/ has("pos_z") \/ has("zpos") THEN "Pos Z"
        ELSE IF has("first reaction time") \/ has("první") THEN "First reaction time"
        ELSE IF has("total reaction time") \/ has("celkov") THEN "Total reaction time"
        ELSE IF has("poradí") \/ has("order") \/ has("trial") THEN "Order"
        ELSE c

\* utils.py lines 13-32: the entry of rename_map for column c, or c when it has none
rename_target(c) ==
    LET lc == lower(Chars[c])
        is(names) == \E n \in names : lc = Chars[n]
        has(k) == contains(Chars[k], lc)
    IN  IF is({"id", "respondent", "participant"}) THEN "ID"
        ELSE IF is({"term", "slovo", "pojem", "word"}) THEN "Term"
        ELSE IF has("pos x") \/ is({"x", "pos_x", "xpos"}) THEN "Pos X"
        ELSE IF has("pos y") \/ is({"y", "pos_y", "ypos"}) THEN "Pos Y"
        ELSE IF has("pos z") \/ is({"z", "pos_z", "zpos"}) THEN "Pos Z"
        ELSE IF has("first reaction time") \/ has("první") THEN "First reaction time"
        ELSE IF has("total reaction time") \/ has("celkov") THEN "Total reaction time"
        ELSE IF has("poradí") \/ has("order") \/ has("trial") THEN "Order"
        ELSE c

\* A table by position, as standardize_hand_columns may leave two columns of one name:
\* [columns |-> names, rows |-> rows], a row being the sequence of its cells. A cell
\* is a number <<v>>, NaN, or a str <<"str", text>>.
\* rename_columns keeping only the columns that have an entry in rename_map
rename_columns_recognized_only(df) ==
    LET kept == SelectSeq([j \in 1..Len(df.columns) |-> j],
                          LAMBDA j : rename_target(df.columns[j])
                                       \in {"ID", "Term", "Pos X", "Pos Y", "Pos Z",
                                            "First reaction time", "Total reaction time",
                                            "Order"})
    IN  [columns |-> [k \in 1..Len(kept) |-> rename_target(df.columns[kept[k]])],
         rows |-> [i \in 1..Len(df.rows) |->
                     [k \in 1..Len(kept) |-> df.rows[i][kept[k]]]]]

\* df.rename(columns=rename_map)
rename_columns(df) ==
    [columns |-> [j \in 1..Len(df.columns) |-> rename_target(df.columns[j])],
     rows |-> df.rows]

\* The texts that parse as a number, with their value in tenths
NumericText == ("1.5" :> 15) @@ ("-0.3" :> -3) @@ ("12" :> 120)

\* pd.to_numeric(errors="coerce") on one cell
to_numeric(cell) ==
    IF Len(cell) = 2
    THEN IF cell[2] \in DOMAIN NumericText THEN <<NumericText[cell[2]]>> ELSE NaN
    ELSE cell

NumericColumns ==
    {"Pos X", "Pos Y", "Pos Z", "First reaction time", "Total reaction time"}

\* utils.py lines 35-37 raise TypeError: df[col] of a name held by two columns is a
\* DataFrame, which pd.to_numeric refuses
raises_TypeError(df) ==
    LET renamed == rename_columns(df)
    IN  \E i, j \in 1..Len(renamed.columns) :
           i # j /\ renamed.columns[i] = renamed.columns[j]
                 /\ renamed.columns[i] \in NumericColumns

\* standardize_hand_columns converting every column to numbers
standardize_hand_columns_all_numeric(df) ==
    LET renamed == rename_columns(df)
    IN  [columns |-> renamed.columns,
         rows |-> [i \in 1..Len(renamed.rows) |->
                     [j \in 1..Len(renamed.columns) |-> to_numeric(renamed.rows[i][j])]]]

\* utils.py lines 10-38, when nothing is raised
standardize_hand_columns(df) ==
    LET renamed == rename_columns(df)
    IN  [columns |-> renamed.columns,
         rows |-> [i \in 1..Len(renamed.rows) |->
                     [j \in 1..Len(renamed.columns) |->
                        IF renamed.columns[j] \in NumericColumns
                        THEN to_numeric(renamed.rows[i][j])
                        ELSE renamed.rows[i][j]]]]

-----------------------------------------------------------------------------
\* error_handler.py

\* error_handler.py lines 76-82: the columns are converted in the order given; an
\* exception (pd.to_numeric on a name held by two columns) ends the loop and the
\* table is returned as converted so far (lines 83-86)
RECURSIVE safe_numeric_conversion(_, _)
safe_numeric_conversion(df, numeric_columns) ==
    IF numeric_columns = <<>> THEN df
    ELSE LET col == Head(numeric_columns)
             held == {j \in 1..Len(df.columns) : df.columns[j] = col}
         IN  IF Cardinality(held) > 1 THEN df
             ELSE safe_numeric_conversion(
                      [columns |-> df.columns,
                       rows |-> [i \in 1..Len(df.rows) |->
                                   [j \in 1..Len(df.columns) |->
                                      IF j \in held THEN to_numeric(df.rows[i][j])
                                      ELSE df.rows[i][j]]]],
                      Tail(numeric_columns))

-----------------------------------------------------------------------------
\* thematic_analysis.py: statistics of pandas and numpy on a Series of cells.

\* DataFrame.empty
empty(df) == Len(df.rows) = 0 \/ Len(df.columns) = 0

\* name in df.columns
has_column(df, name) == \E j \in 1..Len(df.columns) : df.columns[j] = name

\* The non-missing values of a Series, as integers (skipna=True)
dropna(s) ==
    LET kept == SelectSeq(s, LAMBDA c : c # NaN)
    IN  [i \in 1..Len(kept) |-> kept[i][1]]

RECURSIVE SumInts(_)
SumInts(xs) == IF xs = <<>> THEN 0 ELSE Head(xs) + SumInts(Tail(xs))

\* Series.max() and Series.min(): over the non-missing values, NaN when there is none
series_max(s) ==
    LET xs == dropna(s)
    IN  IF xs = <<>> THEN NaN
        ELSE <<CHOOSE x \in {xs[i] : i \in 1..Len(xs)} : \A i \in 1..Len(xs) : x >= xs[i]>>

series_min(s) ==
    LET xs == dropna(s)
    IN  IF xs = <<>> THEN NaN
        ELSE <<CHOOSE x \in {xs[i] : i \in 1..Len(xs)} : \A i \in 1..Len(xs) : x <= xs[i]>>

\* float > float, false on NaN; t in tenths
gt(cell, t) == cell # NaN /\ cell[1] > t

\* The values minus their mean, times their count n (n * (x - mean) is an integer);
\* the dot product of two such vectors is n * n * sum((x - mean) * (y - mean)), a
\* multiple of n, and is kept divided by n
centered(xs) == [i \in 1..Len(xs) |-> Len(xs) * xs[i] - SumInts(xs)]

dot(xs, ys) == SumInts([i \in 1..Len(xs) |-> xs[i] * ys[i]])

\* Series.mean() with a missing value counted as zero
mean_nulls_as_zero(s) ==
    IF dropna(s) = <<>> THEN NaN ELSE <<SumInts(dropna(s)), Len(s)>>

\* Series.mean(): the fraction <<sum, count>> of the non-missing values, NaN when none
mean(s) ==
    LET xs == dropna(s)
    IN  IF xs = <<>> THEN NaN ELSE <<SumInts(xs), Len(xs)>>

\* Series.std() with ddof=0: defined, and zero, for a single value
std_population(s) ==
    LET xs == dropna(s)
        n == Len(xs)
    IN  IF n < 1 THEN NaN
        ELSE <<dot(centered(xs), centered(xs)) \div n, n * n>>

\* Series.std() (ddof=1) of the non-missing values, kept as the fraction <<p, q>> of
\* its square: std^2 = sum((x - mean)^2) / (n - 1) = p / q. NaN below two values.
std(s) ==
    LET xs == dropna(s)
        n == Len(xs)
    IN  IF n < 2 THEN NaN
        ELSE <<dot(centered(xs), centered(xs)) \div n, n * (n - 1)>>

\* std < t and std > t for t >= 0 in tenths, false on NaN
std_lt(sd, t) == sd # NaN /\ sd[1] < t * t * sd[2]

std_gt(sd, t) == sd # NaN /\ sd[1] > t * t * sd[2]

\* np.corrcoef(x, y)[0,1]: cov(x, y) / sqrt(var(x) * var(y)) over all rows, kept as
\* <<cxy, cxx, cyy>>; nan when a value is missing or a variance is 0 (one row included)
corrcoef(x, y) ==
    IF \E i \in 1..Len(x) : x[i] = NaN \/ y[i] = NaN THEN NaN
    ELSE LET cx == centered([i \in 1..Len(x) |-> x[i][1]])
             cy == centered([i \in 1..Len(y) |-> y[i][1]])
             n == Len(x)
         IN  IF dot(cx, cx) = 0 \/ dot(cy, cy) = 0 THEN NaN
             ELSE <<dot(cx, cy) \div n, dot(cx, cx) \div n, dot(cy, cy) \div n>>

\* r > t/10 and r < -t/10 for t >= 0 in tenths, false on nan
corr_gt(r, t) == r # NaN /\ r[1] > 0 /\ 100 * r[1] * r[1] > t * t * r[2] * r[3]

corr_lt_minus(r, t) == r # NaN /\ r[1] < 0 /\ 100 * r[1] * r[1] > t * t * r[2] * r[3]

\* a - b of two means (fractions), NaN when either is
mean_diff(a, b) ==
    IF a = NaN \/ b = NaN THEN NaN
    ELSE <<a[1] * b[2] - b[1] * a[2], a[2] * b[2]>>

\* valence_part with >= for >
valence_part_inclusive(val_range) ==
    IF val_range # NaN /\ val_range[1] >= 15
    THEN ("valence_strategy" :> "DEPTH_VAL") @@ ("valence_strength" :> "silné")
    ELSE IF val_range # NaN /\ val_range[1] >= 8
    THEN ("valence_strategy" :> "DEPTH_VAL") @@ ("valence_strength" :> "mírné")
    ELSE ("valence_strategy" :> "neutral") @@ ("valence_strength" :> "minimální")

\* thematic_analysis.py lines 31-39
valence_part(val_range) ==
    IF gt(val_range, 15)
    THEN ("valence_strategy" :> "DEPTH_VAL") @@ ("valence_strength" :> "silné")
    ELSE IF gt(val_range, 8)
    THEN ("valence_strategy" :> "DEPTH_VAL") @@ ("valence_strength" :> "mírné")
    ELSE ("valence_strategy" :> "neutral") @@ ("valence_strength" :> "minimální")

\* arousal_part with the category of the valence branch
arousal_part_copied_code(ar_range) ==
    IF gt(ar_range, 15)
    THEN ("arousal_strategy" :> "DEPTH_VAL") @@ ("arousal_strength" :> "silné")
    ELSE IF gt(ar_range, 8)
    THEN ("arousal_strategy" :> "DEPTH_VAL") @@ ("arousal_strength" :> "mírné")
    ELSE ("arousal_strategy" :> "neutral") @@ ("arousal_strength" :> "minimální")

\* thematic_analysis.py lines 41-49
arousal_part(ar_range) ==
    IF gt(ar_range, 15)
    THEN ("arousal_strategy" :> "VERT_INT") @@ ("arousal_strength" :> "silné")
    ELSE IF gt(ar_range, 8)
    THEN ("arousal_strategy" :> "VERT_INT") @@ ("arousal_strength" :> "mírné")
    ELSE ("arousal_strategy" :> "neutral") @@ ("arousal_strength" :> "minimální")

\* speed_part with FATIGUE and SYS_DEV exchanged
speed_part_swapped(ud) ==
    IF has_column(ud, "Order") /\ has_column(ud, "First reaction time")
    THEN LET rt_trend == corrcoef(Col(ud, "Order"), Col(ud, "First reaction time"))
         IN  IF corr_gt(rt_trend, 3) THEN "speed_pattern" :> "SYS_DEV"
             ELSE IF corr_lt_minus(rt_trend, 3) THEN "speed_pattern" :> "FATIGUE"
             ELSE "speed_pattern" :> "stable"
    ELSE EmptyDict

\* thematic_analysis.py lines 52-59; a missing column leaves the key out
speed_part(ud) ==
    IF has_column(ud, "Order") /\ has_column(ud, "First reaction time")
    THEN LET rt_trend == corrcoef(Col(ud, "Order"), Col(ud, "First reaction time"))
         IN  IF corr_gt(rt_trend, 3) THEN "speed_pattern" :> "FATIGUE"
             ELSE IF corr_lt_minus(rt_trend, 3) THEN "speed_pattern" :> "SYS_DEV"
             ELSE "speed_pattern" :> "stable"
    ELSE EmptyDict

\* consistency_part with "or" for "and" in the MEM_REF test
consistency_part_either(val_std, ar_std) ==
    IF std_lt(val_std, 3) \/ std_lt(ar_std, 3) THEN "consistency" :> "MEM_REF"
    ELSE IF std_gt(val_std, 10) \/ std_gt(ar_std, 10) THEN "consistency" :> "IND_DIFF"
    ELSE "consistency" :> "moderate"

\* thematic_analysis.py lines 65-70
consistency_part(val_std, ar_std) ==
    IF std_lt(val_std, 3) /\ std_lt(ar_std, 3) THEN "consistency" :> "MEM_REF"
    ELSE IF std_gt(val_std, 10) \/ std_gt(ar_std, 10) THEN "consistency" :> "IND_DIFF"
    ELSE "consistency" :> "moderate"

\* population_part with the population means taken from the participant's own rows
population_part_own_rows(ud, all) ==
    LET user_val_mean == mean(Col(ud, "delta_valence"))
        user_ar_mean == mean(Col(ud, "delta_arousal"))
        pop_val_mean == mean(Col(ud, "delta_valence"))
        pop_ar_mean == mean(Col(ud, "delta_arousal"))
    IN  "population_comparison" :>
            [valence_vs_pop |-> mean_diff(user_val_mean, pop_val_mean),
             arousal_vs_pop |-> mean_diff(user_ar_mean, pop_ar_mean)]

\* thematic_analysis.py lines 73-82
population_part(ud, all) ==
    LET user_val_mean == mean(Col(ud, "delta_valence"))
        user_ar_mean == mean(Col(ud, "delta_arousal"))
        pop_val_mean == mean(Col(all, "delta_valence"))
        pop_ar_mean == mean(Col(all, "delta_arousal"))
    IN  "population_comparison" :>
            [valence_vs_pop |-> mean_diff(user_val_mean, pop_val_mean),
             arousal_vs_pop |-> mean_diff(user_ar_mean, pop_ar_mean)]

\* analyze_user_strategy without the early return on empty data
analyze_user_strategy_no_empty_case(ud, all) ==
    LET val_range == sub(series_max(Col(ud, "delta_valence")),
                         series_min(Col(ud, "delta_valence")))
        ar_range == sub(series_max(Col(ud, "delta_arousal")),
                        series_min(Col(ud, "delta_arousal")))
        val_std == std(Col(ud, "delta_valence"))
        ar_std == std(Col(ud, "delta_arousal"))
    IN  valence_part(val_range) @@ arousal_part(ar_range) @@ speed_part(ud) @@
        consistency_part(val_std, ar_std) @@ population_part(ud, all)

\* thematic_analysis.py lines 15-84: the dict is built in the order of the assignments
analyze_user_strategy(ud, all) ==
    IF empty(ud) THEN EmptyDict
    ELSE LET val_range == sub(series_max(Col(ud, "delta_valence")),
                              series_min(Col(ud, "delta_valence")))
             ar_range == sub(series_max(Col(ud, "delta_arousal")),
                             series_min(Col(ud, "delta_arousal")))
             val_std == std(Col(ud, "delta_valence"))
             ar_std == std(Col(ud, "delta_arousal"))
         IN  valence_part(val_range) @@ arousal_part(ar_range) @@ speed_part(ud) @@
             consistency_part(val_std, ar_std) @@ population_part(ud, all)

\* dict.get(key, default)
get(d, key, default) == IF key \in DOMAIN d THEN d[key] ELSE default

\* The value of dict.get(key) for a missing key
None == "None"

\* relevant_codes with the consistency code ahead of the speed code
relevant_codes_consistency_first(an) ==
    (IF get(an, "valence_strategy", None) = "DEPTH_VAL" THEN <<"DEPTH_VAL">> ELSE <<>>)
    \o (IF get(an, "arousal_strategy", None) = "VERT_INT" THEN <<"VERT_INT">> ELSE <<>>)
    \o (IF get(an, "consistency", None) = "MEM_REF" THEN <<"MEM_REF">>
        ELSE IF get(an, "consistency", None) = "IND_DIFF" THEN <<"IND_DIFF">>
        ELSE <<>>)
    \o (IF get(an, "speed_pattern", None) = "FATIGUE" THEN <<"FATIGUE">>
        ELSE IF get(an, "speed_pattern", None) = "SYS_DEV" THEN <<"SYS_DEV">>
        ELSE <<>>)

\* thematic_analysis.py lines 94-109: the codes of the profile, in the order appended
relevant_codes(an) ==
    (IF get(an, "valence_strategy", None) = "DEPTH_VAL" THEN <<"DEPTH_VAL">> ELSE <<>>)
    \o (IF get(an, "arousal_strategy", None) = "VERT_INT" THEN <<"VERT_INT">> ELSE <<>>)
    \o (IF get(an, "speed_pattern", None) = "FATIGUE" THEN <<"FATIGUE">>
        ELSE IF get(an, "speed_pattern", None) = "SYS_DEV" THEN <<"SYS_DEV">>
        ELSE <<>>)
    \o (IF get(an, "consistency", None) = "MEM_REF" THEN <<"MEM_REF">>
        ELSE IF get(an, "consistency", None) = "IND_DIFF" THEN <<"IND_DIFF">>
        ELSE <<>>)

\* thematic_df[thematic_df['Code'] == code]: the rows of the code, in table order
matches(df, code) == SelectSeq(df.rows, LAMBDA row : row["Code"] = code)

\* The dict appended for a row (lines 114-119 and 127-132)
quote_entry(row, code) ==
    [theme |-> row["Subtheme"], definition |-> row["Definition"],
     quote |-> row["Example quotes"], code |-> code]

\* matched_quotes taking one row of each relevant code
RECURSIVE matched_quotes_one_per_code(_, _)
matched_quotes_one_per_code(codes, df) ==
    IF codes = <<>> THEN <<>>
    ELSE LET rows == matches(df, Head(codes))
         IN  (IF rows = <<>> THEN <<>> ELSE << quote_entry(rows[1], Head(codes)) >>)
             \o matched_quotes_one_per_code(Tail(codes), df)

\* thematic_analysis.py lines 112-119: every row of every relevant code
RECURSIVE matched_quotes(_, _)
matched_quotes(codes, df) ==
    IF codes = <<>> THEN <<>>
    ELSE LET rows == matches(df, Head(codes))
         IN  [i \in 1..Len(rows) |-> quote_entry(rows[i], Head(codes))]
             \o matched_quotes(Tail(codes), df)

\* fallback_quotes taking the last row of a code
fallback_quotes_last_row(codes, df) ==
    LET last(code) ==
            LET rows == matches(df, code)
            IN  IF rows = <<>> THEN <<>>
                ELSE << quote_entry(rows[Len(rows)], code) >>
    IN  last(codes[1]) \o last(codes[2]) \o last(codes[3])

\* thematic_analysis.py lines 122-133: matches.iloc[0] of each of the three codes
fallback_quotes(codes, df) ==
    LET first(code) ==
            LET rows == matches(df, code)
            IN  IF rows = <<>> THEN <<>> ELSE << quote_entry(rows[1], code) >>
    IN  first(codes[1]) \o first(codes[2]) \o first(codes[3])

\* list[:3]
first_three(xs) == SubSeq(xs, 1, IF Len(xs) < 3 THEN Len(xs) ELSE 3)

\* get_matching_quotes returning the whole list
get_matching_quotes_untruncated(an, df) ==
    IF empty(df) THEN <<>>
    ELSE LET found == matched_quotes(relevant_codes(an), df)
         IN  IF found = <<>>
             THEN fallback_quotes(<<"DEPTH_VAL", "VERT_INT", "HORIZ_DOM">>, df)
             ELSE found

\* thematic_analysis.py lines 86-135
get_matching_quotes(an, df) ==
    IF empty(df) THEN <<>>
    ELSE LET found == matched_quotes(relevant_codes(an), df)
         IN  first_three(IF found = <<>>
                         THEN fallback_quotes(<<"DEPTH_VAL", "VERT_INT", "HORIZ_DOM">>, df)
                         ELSE found)

\* str.capitalize() of the strength words
capitalize(word) ==
    CASE word = "silné" -> "Silné"
      [] word = "mírné" -> "Mírné"
      [] word = "minimální" -> "Minimální"

\* thematic_analysis.py lines 143-159: one sentence per strategy, pattern and consistency
strategy_sentences(an) ==
    (IF get(an, "valence_strategy", None) = "DEPTH_VAL"
     THEN << <<"**Valence mapping**: Más ", get(an, "valence_strength", "mírné"),
               " vyuzívání prostorové hloubky pro príjemnost/nepríjemnost slov.">> >>
     ELSE <<>>)
    \o (IF get(an, "arousal_strategy", None) = "VERT_INT"
        THEN << <<"**Vertikální intenzita**: ",
                  capitalize(get(an, "arousal_strength", "mírné")),
                  " mapování emocní síly na vertikální osu.">> >>
        ELSE <<>>)
    \o (IF get(an, "speed_pattern", None) = "FATIGUE"
        THEN << <<"**Únava behem testování**: Postupne ses zpomaloval, coz je normální pri této délce úkolu.">> >>
        ELSE IF get(an, "speed_pattern", None) = "SYS_DEV"
        THEN << <<"**Systematický prístup**: Postupne ses zrychloval - vyvinul sis efektivní strategii.">> >>
        ELSE <<>>)
    \o (IF get(an, "consistency", None) = "MEM_REF"
        THEN << <<"**Vysoká konzistence**: Pamatujes si své predchozí volby a drzís se jednotné logiky.">> >>
        ELSE IF get(an, "consistency", None) = "IND_DIFF"
        THEN << <<"**Kreativní prístup**: Pouzívás rozmanité, atypické zpusoby umístování slov.">> >>
        ELSE <<>>)

\* abs(d) > t/10 for a difference d kept as a fraction, false on NaN
abs_gt(d, t) == d # NaN /\ (d[1] > t * d[2] \/ -d[1] > t * d[2])

\* thematic_analysis.py lines 162-173: the default of a missing entry is 0
population_sentences(an) ==
    LET pop_comp == get(an, "population_comparison", EmptyDict)
        val_diff == get(pop_comp, "valence_vs_pop", <<0, 1>>)
        ar_diff == get(pop_comp, "arousal_vs_pop", <<0, 1>>)
    IN  (IF abs_gt(val_diff, 3)
         THEN << <<"**Valence odlisnost**: Obecne hodnotís slova ",
                   IF val_diff[1] > 0 THEN "pozitivneji" ELSE "negativneji",
                   " nez prumer skupiny.">> >>
         ELSE <<>>)
        \o (IF abs_gt(ar_diff, 3)
            THEN << <<"**Arousal odlisnost**: Vnímás emocní intenzitu ",
                      IF ar_diff[1] > 0 THEN "intenzivneji" ELSE "klidneji",
                      " nez ostatní.">> >>
            ELSE <<>>)

\* sep.join(strs) for a non-empty list
RECURSIVE join(_, _)
join(sep, strs) ==
    IF Len(strs) = 1 THEN strs[1]
    ELSE strs[1] \o <<sep>> \o join(sep, Tail(strs))

\* bullet_text with the closing sentence added to every list
bullet_text_always_closing(sentences) ==
    <<" * ">> \o join("\n * ",
                      sentences \o << <<"* Tvuj prístup je velmi blízký prumeru skupiny.">> >>)

\* thematic_analysis.py line 175
bullet_text(sentences) ==
    IF sentences # <<>> THEN <<" * ">> \o join("\n * ", sentences)
    ELSE <<"* Tvuj prístup je velmi blízký prumeru skupiny.">>

\* generate_qualitative_insights with one more sentence per quote
generate_qualitative_insights_citing_quotes(an, quotes) ==
    bullet_text(strategy_sentences(an) \o population_sentences(an)
                \o [i \in 1..Len(quotes) |-> <<"**Citát**: ", quotes[i].code>>])

\* thematic_analysis.py lines 137-175
generate_qualitative_insights(an, quotes) ==
    bullet_text(strategy_sentences(an) \o population_sentences(an))

-----------------------------------------------------------------------------
\* Inputs of compute_deltas.

HandColumns ==
    <<"ID", "Term", "Pos X", "Pos Y", "Pos Z",
      "First reaction time", "Total reaction time", "Order">>

ParticipantIds == <<"TEST001", "TEST002", "TEST003", "TEST004">>

Terms == {"radostný", "neznámé"}

\* <<Pos X, Pos Z>> of a placement
Positions == { <<<<5>>, <<8>>>>, <<<<-3>>, <<4>>>>, <<NaN, <<4>>>> }

HandRow(i, term, pos) ==
    ("ID" :> ParticipantIds[i]) @@ ("Term" :> term) @@
    ("Pos X" :> pos[1]) @@ ("Pos Y" :> <<2>>) @@ ("Pos Z" :> pos[2]) @@
    ("First reaction time" :> <<25>>) @@ ("Total reaction time" :> <<31>>) @@
    ("Order" :> <<i>>)

HandFrames ==
    UNION { { [columns |-> HandColumns,
               rows |-> [i \in 1..n |-> HandRow(i, t[i], p[i])]] :
              t \in [1..n -> Terms], p \in [1..n -> Positions] } : n \in 0..MaxHand }

Words == {"radostný", "smutný"}

\* <<Valence, Arousal>> labels of a baseline row
LabelPairs ==
    { <<<<"pozitivní">>, <<"vysoký">>>>, <<<<"negativní">>, <<"strední">>>>,
      <<<<"POZITIVNÍ">>, <<"Vysoký">>>> }

BaseRow(wc, w, l) == (wc :> w) @@ ("Valence" :> l[1]) @@ ("Arousal" :> l[2])

BaseFrames ==
    UNION { { [columns |-> <<"Word", "Valence", "Arousal">>,
               rows |-> [i \in 1..n |-> BaseRow("Word", w[i], l[i])]] :
              w \in [1..n -> Words], l \in [1..n -> LabelPairs] } : n \in 0..MaxBase }

\* One placement and one baseline row for its Term, over every label and word-column name
ValenceLabels ==
    { <<"negativní">>, <<"neutrální">>, <<"pozitivní">>,
      <<"Negativní">>, <<"Neutrální">>, <<"Pozitivní">>,
      <<"POZITIVNÍ">>, <<"vysoký">>, NaN }

ArousalLabels ==
    { <<"nízký">>, <<"strední">>, <<"vysoký">>,
      <<"Nízký">>, <<"Strední">>, <<"Vysoký">>,
      <<"VYSOKÝ">>, <<"pozitivní">>, NaN }

WordColumnNames == {"Word", "Slovo", "Adjective"}

LabelFrames ==
    { [columns |-> <<wc, "Valence", "Arousal">>,
       rows |-> << BaseRow(wc, "radostný", <<lv, la>>) >>] :
      wc \in WordColumnNames, lv \in ValenceLabels, la \in ArousalLabels }

InitDeltas ==
    /\ \/ /\ hand_df \in HandFrames
          /\ vybrana \in BaseFrames
       \/ /\ hand_df = [columns |-> HandColumns,
                        rows |-> << HandRow(1, "radostný", <<<<5>>, <<8>>>>) >>]
          /\ vybrana \in LabelFrames
    /\ deltas_all = EmptyFrame
    /\ user_data = EmptyFrame
    /\ analysis = EmptyDict
    /\ thematic_df = EmptyFrame
    /\ matching_quotes = <<>>
    /\ insights = <<>>
    /\ df_in = EmptyFrame
    /\ df_out = EmptyFrame
    /\ selected_id = NaN
    /\ stats = EmptyDict
    /\ pc = "loaded"

\* app.main: deltas_all = compute_deltas(hand, vybrana)
ComputeDeltas ==
    /\ pc = "loaded"
    /\ IF raises_KeyError(hand_df, vybrana)
       THEN /\ pc' = "KeyError"
            /\ UNCHANGED deltas_all
       ELSE /\ deltas_all' = compute_deltas(hand_df, vybrana)
            /\ pc' = "deltas"
    /\ UNCHANGED <<hand_df, vybrana, user_data, analysis>>
    /\ UNCHANGED <<thematic_df, matching_quotes, insights, df_in, df_out>>
    /\ UNCHANGED <<selected_id, stats>>

NextDeltas == ComputeDeltas

SpecDeltas == InitDeltas /\ [][NextDeltas]_vars

-----------------------------------------------------------------------------
\* Inputs of _detect_word_col: baseline tables whose word column has various names and
\* positions.

KeyColumnOrders ==
    { <<"Word", "Valence", "Arousal">>,
      <<"Valence", "Slovo", "Arousal">>,
      <<"Valence", "Arousal", "SLOVO">>,
      <<"Prídavné jméno", "Valence", "Arousal">>,
      <<"Slovo", "Adjektivum", "Valence", "Arousal">>,
      <<"Adjektivum", "Slovo", "Valence", "Arousal">>,
      <<"Adjective", "Valence", "Arousal">>,
      <<"Notes", "Adjective", "Valence", "Arousal">>,
      <<"Valence", "Arousal", "Adjective">>,
      <<"Arousal", "Valence", "Adjective">> }

\* The columns of a baseline table that hold text other than the two labels
TextColumns(cols) ==
    {cols[j] : j \in 1..Len(cols)} \ {"Valence", "Arousal"}

\* A baseline row holding the word w[c] in every text column c
KeyBaseRow(cols, w) ==
    [c \in {cols[j] : j \in 1..Len(cols)} |->
        IF c = "Valence" THEN <<"pozitivní">>
        ELSE IF c = "Arousal" THEN <<"vysoký">>
        ELSE w[c]]

InitJoinKey ==
    /\ \E term \in Words :
          hand_df = [columns |-> HandColumns,
                     rows |-> << HandRow(1, term, <<<<5>>, <<8>>>>) >>]
    /\ \E cols \in KeyColumnOrders :
          \E n \in 1..MaxBase :
             \E w \in [1..n -> [TextColumns(cols) -> Words]] :
                vybrana = [columns |-> cols,
                           rows |-> [i \in 1..n |-> KeyBaseRow(cols, w[i])]]
    /\ deltas_all = EmptyFrame
    /\ user_data = EmptyFrame
    /\ analysis = EmptyDict
    /\ thematic_df = EmptyFrame
    /\ matching_quotes = <<>>
    /\ insights = <<>>
    /\ df_in = EmptyFrame
    /\ df_out = EmptyFrame
    /\ selected_id = NaN
    /\ stats = EmptyDict
    /\ pc = "loaded"

SpecJoinKey == InitJoinKey /\ [][NextDeltas]_vars

-----------------------------------------------------------------------------
\* Inputs of standardize_hand_columns: tables whose column names are pairwise distinct.

CanonicalNames ==
    {"ID", "Term", "Pos X", "Pos Y", "Pos Z",
     "First reaction time", "Total reaction time", "Order"}

\* Canonical names, aliases in several spellings, and names that only resemble an alias
ColumnNames ==
    CanonicalNames \cup
    {"Respondent", "participant", "Slovo", "pojem", "x", "XPOS", "pos_y", "Z",
     "POS X (cm)", "První reakce", "Celkový cas", "Poradí", "Trial",
     "Participant ID", "Index", "Notes"}

\* One row of numbers under the given column names
NamedTable(names) ==
    [columns |-> names,
     rows |-> << [j \in 1..Len(names) |-> <<10 * j>>] >>]

\* What a cell read from the file may hold
HandCells == { <<15>>, NaN, <<"str", "1.5">>, <<"str", "12">>, <<"str", "abc">> }

InitColumns ==
    /\ hand_df = EmptyFrame
    /\ vybrana = EmptyFrame
    /\ deltas_all = EmptyFrame
    /\ user_data = EmptyFrame
    /\ analysis = EmptyDict
    /\ thematic_df = EmptyFrame
    /\ matching_quotes = <<>>
    /\ insights = <<>>
    /\ \/ \E n \in 0..MaxColumns :
             \E names \in [1..n -> ColumnNames] :
                /\ \A i, j \in 1..n : i # j => names[i] # names[j]
                /\ df_in = NamedTable(names)
       \/ \E c \in {"Pos X", "x"} :
             \E a, b \in HandCells :
                df_in = [columns |-> <<c, "Order">>, rows |-> << <<a, b>> >>]
    /\ df_out = EmptyFrame
    /\ selected_id = NaN
    /\ stats = EmptyDict
    /\ pc = "raw"

\* hand = standardize_hand_columns(hand)
StandardizeHandColumns ==
    /\ pc = "raw"
    /\ IF raises_TypeError(df_in)
       THEN /\ pc' = "TypeError"
            /\ UNCHANGED df_out
       ELSE /\ df_out' = standardize_hand_columns(df_in)
            /\ pc' = "standardized"
    /\ UNCHANGED <<hand_df, vybrana, deltas_all, user_data, analysis>>
    /\ UNCHANGED <<thematic_df, matching_quotes, insights, df_in>>
    /\ UNCHANGED <<selected_id, stats>>

\* standardize_hand_columns applied to its own result
StandardizeAgain ==
    /\ pc = "standardized"
    /\ df_in' = df_out
    /\ IF raises_TypeError(df_out)
       THEN /\ pc' = "TypeError"
            /\ UNCHANGED df_out
       ELSE /\ df_out' = standardize_hand_columns(df_out)
            /\ pc' = "restandardized"
    /\ UNCHANGED <<hand_df, vybrana, deltas_all, user_data, analysis>>
    /\ UNCHANGED <<thematic_df, matching_quotes, insights>>
    /\ UNCHANGED <<selected_id, stats>>

\* app.py line 77
numeric_cols ==
    <<"Pos X", "Pos Y", "Pos Z", "First reaction time", "Total reaction time">>

\* hand = safe_numeric_conversion(hand, numeric_cols)
SafeNumericConversion ==
    /\ pc = "standardized"
    /\ df_in' = df_out
    /\ df_out' = safe_numeric_conversion(df_out, numeric_cols)
    /\ pc' = "converted"
    /\ UNCHANGED <<hand_df, vybrana, deltas_all, user_data, analysis>>
    /\ UNCHANGED <<thematic_df, matching_quotes, insights>>
    /\ UNCHANGED <<selected_id, stats>>

NextColumns == StandardizeHandColumns \/ StandardizeAgain \/ SafeNumericConversion

SpecColumns == InitColumns /\ [][NextColumns]_vars

-----------------------------------------------------------------------------
\* Inputs of analyze_user_strategy: sub, the rows of one participant in deltas_all.

UserColumns ==
    <<"ID", "Term", "First reaction time", "Order", "delta_valence", "delta_arousal">>

DeltaValues == {NaN, <<-5>>, <<0>>, <<3>>, <<6>>, <<8>>, <<10>>, <<15>>, <<20>>}

\* <<delta_valence, delta_arousal>> of a row: one delta varies, or both do
ValencePairs == {<<v, <<0>>>> : v \in DeltaValues}

ArousalPairs == {<<<<0>>, v>> : v \in DeltaValues}

MixedPairs ==
    {<<NaN, NaN>>, <<<<0>>, <<0>>>>, <<<<20>>, <<20>>>>, <<<<10>>, <<20>>>>,
     <<<<20>>, <<8>>>>, <<<<20>>, <<15>>>>, <<<<3>>, <<6>>>>}

UserRow(id, i, rt, d) ==
    ("ID" :> id) @@ ("Term" :> "radostný") @@
    ("First reaction time" :> rt) @@ ("Order" :> <<i>>) @@
    ("delta_valence" :> d[1]) @@ ("delta_arousal" :> d[2])

\* A table of n rows whose deltas are d[1..n], with a constant reaction time
DeltaFrame(n, d) ==
    [columns |-> UserColumns,
     rows |-> [i \in 1..n |-> UserRow("TEST001", i, <<25>>, d[i])]]

ReactionTimes == {<<10>>, <<20>>, <<30>>, <<40>>, <<50>>}

\* The columns of a table without some of the optional ones
ColumnChoices ==
    { UserColumns,
      SelectSeq(UserColumns, LAMBDA c : c # "Order"),
      SelectSeq(UserColumns, LAMBDA c : c # "First reaction time"),
      SelectSeq(UserColumns, LAMBDA c : c \notin {"Order", "First reaction time"}) }

restrict(row, cols) == [c \in {cols[j] : j \in 1..Len(cols)} |-> row[c]]

\* A table of the trials 1..n whose reaction times are rt[1..n], with constant deltas
TrialFrame(n, rt, cols) ==
    [columns |-> cols,
     rows |-> [i \in 1..n |->
                 restrict(UserRow("TEST001", i, rt[i], <<<<0>>, <<0>>>>), cols)]]

\* A table of the trials 1..n whose reaction times are rt[1..n] and whose deltas are
\* all missing
NullDeltaFrame(n, rt) ==
    [columns |-> UserColumns,
     rows |-> [i \in 1..n |-> UserRow("TEST001", i, rt[i], <<NaN, NaN>>)]]

\* The rows of the other participants in deltas_all
OtherRows(cols) == << restrict(UserRow("TEST002", 1, <<31>>, <<<<7>>, <<-16>>>>), cols) >>

InitStrategy ==
    /\ hand_df = EmptyFrame
    /\ vybrana = EmptyFrame
    /\ \/ \E n \in 0..MaxWords :
             \E d \in [1..n -> ValencePairs] \cup [1..n -> ArousalPairs]
                      \cup [1..n -> MixedPairs] :
                 user_data = DeltaFrame(n, d)
       \/ \E n \in 1..MaxTrials :
             \E rt \in [1..n -> ReactionTimes], cols \in ColumnChoices :
                 user_data = TrialFrame(n, rt, cols)
       \/ \E n \in 1..MaxWords :
             \E rt \in [1..n -> ReactionTimes] : user_data = NullDeltaFrame(n, rt)
    /\ deltas_all = [columns |-> user_data.columns,
                     rows |-> user_data.rows \o OtherRows(user_data.columns)]
    /\ analysis = EmptyDict
    /\ thematic_df = EmptyFrame
    /\ matching_quotes = <<>>
    /\ insights = <<>>
    /\ df_in = EmptyFrame
    /\ df_out = EmptyFrame
    /\ selected_id = NaN
    /\ stats = EmptyDict
    /\ pc = "selected"

\* app.main: user_analysis = analyze_user_strategy(sub, deltas_all)
AnalyzeUserStrategy ==
    /\ pc = "selected"
    /\ analysis' = analyze_user_strategy(user_data, deltas_all)
    /\ pc' = "analyzed"
    /\ UNCHANGED <<hand_df, vybrana, deltas_all, user_data>>
    /\ UNCHANGED <<thematic_df, matching_quotes, insights, df_in, df_out>>
    /\ UNCHANGED <<selected_id, stats>>

NextStrategy == AnalyzeUserStrategy

SpecStrategy == InitStrategy /\ [][NextStrategy]_vars

-----------------------------------------------------------------------------
\* Inputs of the qualitative report: one participant's rows, deltas_all and the codebook.

ThematicColumns == <<"Code", "Subtheme", "Definition", "Example quotes">>

\* Row i of the codebook; its texts are told apart by i
ThematicRow(i, code) ==
    ("Code" :> code) @@ ("Subtheme" :> <<"Subtheme", i>>) @@
    ("Definition" :> <<"Definition", i>>) @@ ("Example quotes" :> <<"Example quotes", i>>)

ThematicFrame(n, codes) ==
    [columns |-> ThematicColumns,
     rows |-> [i \in 1..n |-> ThematicRow(i, codes[i])]]

\* The codes a codebook draws its rows from
CodeFamilies ==
    { {"DEPTH_VAL", "VERT_INT", "HORIZ_DOM", "MEM_REF"},
      {"FATIGUE", "SYS_DEV", "IND_DIFF", "DEPTH_VAL"},
      {"VERT_INT", "SYS_DEV", "MEM_REF", "HORIZ_DOM"} }

\* Reaction times of trials 1..n that rise, fall or stay level with Order
Rising(n) == [i \in 1..n |-> <<10 * i>>]

Falling(n) == [i \in 1..n |-> <<10 * (n + 1 - i)>>]

Level(n) == [i \in 1..n |-> <<25>>]

WithoutOrder == SelectSeq(UserColumns, LAMBDA c : c # "Order")

\* <<deltas, reaction times, columns>> of the participant's rows
ReportCases ==
    { << <<>>, <<>>, UserColumns >>,
      << << <<<<0>>, <<0>>>> >>, Level(1), UserColumns >>,
      << << <<<<6>>, <<0>>>> >>, Level(1), UserColumns >>,
      << << <<<<0>>, <<0>>>>, <<<<0>>, <<5>>>> >>, Level(2), UserColumns >>,
      << << <<NaN, NaN>>, <<NaN, NaN>> >>, Level(2), UserColumns >>,
      << << <<<<0>>, <<0>>>>, <<<<0>>, <<0>>>> >>, Level(2), UserColumns >>,
      << << <<<<0>>, <<0>>>>, <<<<0>>, <<0>>>> >>, Rising(2), UserColumns >>,
      << << <<<<0>>, <<0>>>>, <<<<0>>, <<0>>>> >>, Falling(2), UserColumns >>,
      << << <<<<0>>, <<0>>>>, <<<<10>>, <<0>>>> >>, Rising(2), UserColumns >>,
      << << <<<<0>>, <<0>>>>, <<<<0>>, <<10>>>> >>, Rising(2), WithoutOrder >>,
      << << <<<<0>>, <<0>>>>, <<<<10>>, <<10>>>> >>, Level(2), UserColumns >>,
      << << <<<<0>>, <<0>>>>, <<<<10>>, <<20>>>> >>, Level(2), UserColumns >>,
      << << <<<<0>>, <<0>>>>, <<<<20>>, <<0>>>> >>, Rising(2), UserColumns >>,
      << << <<<<0>>, <<0>>>>, <<<<0>>, <<20>>>> >>, Falling(2), UserColumns >>,
      << << <<<<0>>, <<0>>>>, <<<<20>>, <<20>>>> >>, Falling(2), UserColumns >> }

ReportFrame(case) ==
    [columns |-> case[3],
     rows |-> [i \in 1..Len(case[1]) |->
                 restrict(UserRow("TEST001", i, case[2][i], case[1][i]), case[3])]]

\* <<delta_valence, delta_arousal>> of the one row of another participant
OtherDeltas == { <<<<7>>, <<-16>>>>, <<<<0>>, <<0>>>> }

InitReport ==
    /\ hand_df = EmptyFrame
    /\ vybrana = EmptyFrame
    /\ \E case \in ReportCases : user_data = ReportFrame(case)
    /\ \E other \in OtherDeltas :
          deltas_all =
              [columns |-> user_data.columns,
               rows |-> user_data.rows
                        \o << restrict(UserRow("TEST002", 1, <<31>>, other),
                                       user_data.columns) >>]
    /\ analysis = EmptyDict
    /\ \/ thematic_df = EmptyFrame
       \/ \E n \in 0..MaxEntries :
             \E family \in CodeFamilies :
                \E codes \in [1..n -> family] : thematic_df = ThematicFrame(n, codes)
    /\ matching_quotes = <<>>
    /\ insights = <<>>
    /\ df_in = EmptyFrame
    /\ df_out = EmptyFrame
    /\ selected_id = NaN
    /\ stats = EmptyDict
    /\ pc = "selected"

\* matching_quotes = get_matching_quotes(user_analysis, thematic_df)
GetMatchingQuotes ==
    /\ pc = "analyzed"
    /\ matching_quotes' = get_matching_quotes(analysis, thematic_df)
    /\ pc' = "matched"
    /\ UNCHANGED <<hand_df, vybrana, deltas_all, user_data, analysis>>
    /\ UNCHANGED <<thematic_df, insights, df_in, df_out>>
    /\ UNCHANGED <<selected_id, stats>>

\* qualitative_insights = generate_qualitative_insights(user_analysis, matching_quotes)
GenerateQualitativeInsights ==
    /\ pc = "matched"
    /\ insights' = generate_qualitative_insights(analysis, matching_quotes)
    /\ pc' = "reported"
    /\ UNCHANGED <<hand_df, vybrana, deltas_all, user_data, analysis>>
    /\ UNCHANGED <<thematic_df, matching_quotes, df_in, df_out>>
    /\ UNCHANGED <<selected_id, stats>>

\* qualitative_pdf_text = generate_qualitative_insights(user_analysis, [])
GeneratePdfInsights ==
    /\ pc = "analyzed"
    /\ insights' = generate_qualitative_insights(analysis, <<>>)
    /\ pc' = "pdf"
    /\ UNCHANGED <<hand_df, vybrana, deltas_all, user_data, analysis>>
    /\ UNCHANGED <<thematic_df, matching_quotes, df_in, df_out>>
    /\ UNCHANGED <<selected_id, stats>>

NextReport ==
    \/ AnalyzeUserStrategy
    \/ GetMatchingQuotes
    \/ GenerateQualitativeInsights
    \/ GeneratePdfInsights

SpecReport == InitReport /\ [][NextReport]_vars

-----------------------------------------------------------------------------
\* app.main after load_and_process_data: compute_deltas, the checks on the requested
\* ID, the means of the metrics and the qualitative report.

\* validate_user_id that accepts an ID no row carries
validate_user_id_non_empty_only(user_id, available_ids) ==
    IF user_id = NaN \/ user_id[1] = "" THEN FALSE ELSE TRUE

\* validate_user_id: a user_id of None is NaN here, a str is <<str>>; available_ids is
\* the set of the IDs as str (its order does not matter to "in")
validate_user_id(user_id, available_ids) ==
    IF user_id = NaN \/ user_id[1] = "" THEN FALSE
    ELSE IF user_id[1] \notin available_ids THEN FALSE
    ELSE TRUE

\* sorted(deltas_all["ID"].dropna().astype(str).unique()); the IDs of a table are str
\* here and none is missing, so that dropna and astype keep them
available_ids(df) == {df.rows[i]["ID"] : i \in 1..Len(df.rows)}

\* deltas_all[deltas_all["ID"].astype(str) == str(selected_id)].copy()
select_rows(df, id) ==
    [columns |-> df.columns,
     rows |-> SelectSeq(df.rows, LAMBDA r : id # NaN /\ r["ID"] = id[1])]

\* Series.nunique() of a column of str without missing values
nunique(s) == Cardinality({s[i] : i \in 1..Len(s)})

\* The columns whose population means main takes
overall_columns == {"delta_valence", "delta_arousal", "First reaction time", "Pos Y"}

\* overall, user_val, user_ar, user_rt, user_dom and words_n of main
compute_stats(sub_df, all) ==
    [overall |-> [c \in overall_columns |-> mean(Col(all, c))],
     user_val |-> mean(Col(sub_df, "delta_valence")),
     user_ar |-> mean(Col(sub_df, "delta_arousal")),
     user_rt |-> mean(Col(sub_df, "First reaction time")),
     user_dom |-> mean(Col(sub_df, "Pos Y")),
     words_n |-> nunique(Col(sub_df, "Term"))]

required_numeric_cols == <<"delta_valence", "delta_arousal", "First reaction time">>

\* sub[required_numeric_cols].isna().all().all()
all_missing(df, cols) ==
    \A j \in 1..Len(cols) : \A i \in 1..Len(df.rows) : df.rows[i][cols[j]] = NaN

\* <<Pos X, Pos Z>> of a placement of main's inputs
MainPositions == Positions \cup { <<NaN, NaN>> }

\* A placement of participant id; its reaction time is missing when both positions are
MainRow(id, i, term, pos) ==
    [HandRow(i, term, pos) EXCEPT
        !["ID"] = id,
        !["First reaction time"] = IF pos = <<NaN, NaN>> THEN NaN ELSE <<20 + 5 * i>>]

MainIds == {"TEST001", "TEST002"}

MainFrames ==
    UNION { { [columns |-> HandColumns,
               rows |-> [i \in 1..n |-> MainRow(id[i], i, t[i], p[i])]] :
              id \in [1..n -> MainIds], t \in [1..n -> Terms],
              p \in [1..n -> MainPositions] } : n \in 1..MaxHand }

MainBaselines ==
    { [columns |-> <<"Word", "Valence", "Arousal">>,
       rows |-> << BaseRow("Word", "radostný", <<<<"pozitivní">>, <<"vysoký">>>>) >>],
      [columns |-> <<"Word", "Valence", "Arousal">>,
       rows |-> << BaseRow("Word", "smutný", <<<<"negativní">>, <<"strední">>>>),
                   BaseRow("Word", "radostný", <<NaN, <<"Vysoký">>>>) >>] }

\* The ID requested in the URL: none, empty, one of a participant or an unknown one
RequestedIds == {NaN, <<"">>, <<"TEST001">>, <<"TEST002">>, <<"TEST003">>}

MainCodebooks ==
    { EmptyFrame,
      ThematicFrame(3, <<"DEPTH_VAL", "IND_DIFF", "MEM_REF">>) }

InitMain ==
    /\ hand_df \in MainFrames
    /\ vybrana \in MainBaselines
    /\ selected_id \in RequestedIds
    /\ thematic_df \in MainCodebooks
    /\ deltas_all = EmptyFrame
    /\ user_data = EmptyFrame
    /\ analysis = EmptyDict
    /\ matching_quotes = <<>>
    /\ insights = <<>>
    /\ df_in = EmptyFrame
    /\ df_out = EmptyFrame
    /\ stats = EmptyDict
    /\ pc = "loaded"

\* if not validate_user_id(selected_id, available_ids): st.stop()
ValidateUserId ==
    /\ pc = "deltas"
    /\ pc' = IF validate_user_id(selected_id, available_ids(deltas_all))
             THEN "validated" ELSE "stopped"
    /\ UNCHANGED <<hand_df, vybrana, deltas_all, user_data, analysis>>
    /\ UNCHANGED <<thematic_df, matching_quotes, insights, df_in, df_out>>
    /\ UNCHANGED <<selected_id, stats>>

\* sub = deltas_all[...].copy(); if sub.empty: st.stop()
SelectParticipant ==
    /\ pc = "validated"
    /\ user_data' = select_rows(deltas_all, selected_id)
    /\ pc' = IF empty(user_data') THEN "stopped" ELSE "subset"
    /\ UNCHANGED <<hand_df, vybrana, deltas_all, analysis>>
    /\ UNCHANGED <<thematic_df, matching_quotes, insights, df_in, df_out>>
    /\ UNCHANGED <<selected_id, stats>>

\* The means of the metrics
ComputeStats ==
    /\ pc = "subset"
    /\ stats' = compute_stats(user_data, deltas_all)
    /\ pc' = "stats"
    /\ UNCHANGED <<hand_df, vybrana, deltas_all, user_data, analysis>>
    /\ UNCHANGED <<thematic_df, matching_quotes, insights, df_in, df_out>>
    /\ UNCHANGED selected_id

\* The checks ahead of the charts: st.stop() on empty tables, on a missing numeric
\* column and when every numeric value of the participant is missing
CheckChartData ==
    /\ pc = "stats"
    /\ pc' = IF \/ empty(deltas_all) \/ empty(user_data)
                \/ \E j \in 1..Len(required_numeric_cols) :
                      ~has_column(user_data, required_numeric_cols[j])
                \/ all_missing(user_data, required_numeric_cols)
             THEN "stopped" ELSE "selected"
    /\ UNCHANGED <<hand_df, vybrana, deltas_all, user_data, analysis>>
    /\ UNCHANGED <<thematic_df, matching_quotes, insights, df_in, df_out>>
    /\ UNCHANGED <<selected_id, stats>>

\* if not thematic_df.empty: user_analysis = analyze_user_strategy(sub, deltas_all)
AnalyzeIfThematicData ==
    /\ ~empty(thematic_df)
    /\ AnalyzeUserStrategy

NextMain ==
    \/ ComputeDeltas
    \/ ValidateUserId
    \/ SelectParticipant
    \/ ComputeStats
    \/ CheckChartData
    \/ AnalyzeIfThematicData
    \/ GetMatchingQuotes
    \/ GenerateQualitativeInsights
    \/ GeneratePdfInsights

SpecMain == InitMain /\ [][NextMain]_vars

-----------------------------------------------------------------------------
\* app.load_and_process_data: the two CSV files are read, checked, and the placements
\* table is normalized and returned to main, which calls compute_deltas.
\*
\* A file is [error |-> name of the exception pd.read_csv raises, or "", data |-> the
\* table it holds]. None, as a table, is NaN. In this part vybrana and df_in hold the
\* two files first and the tables read from them afterwards.

\* error_handler.py lines 27-48: the table, or None on any exception
safe_read_csv(file) == IF file.error # "" THEN NaN ELSE file.data

\* validate_data_structure without the check of emptiness
validate_data_structure_columns_only(df, required_columns, data_name) ==
    IF df = NaN THEN FALSE
    ELSE \A j \in 1..Len(required_columns) : has_column(df, required_columns[j])

\* error_handler.py lines 50-71; df.columns of None raises AttributeError, caught at
\* line 68
validate_data_structure(df, required_columns, data_name) ==
    IF df = NaN THEN FALSE
    ELSE IF \E j \in 1..Len(required_columns) : ~has_column(df, required_columns[j])
    THEN FALSE
    ELSE IF empty(df) THEN FALSE
    ELSE TRUE

vybrana_required == <<"Valence", "Arousal">>

hand_required == <<"ID", "Term", "Pos X", "Pos Y", "Pos Z", "First reaction time">>

\* The check of the placements table made on the names standardize_hand_columns gives
checked_hand_normalized_first(hand) ==
    validate_data_structure(standardize_hand_columns(hand), hand_required, "hand dataset")

\* app.py line 72: the check of the placements table as read
checked_hand(hand) == validate_data_structure(hand, hand_required, "hand dataset")

\* The table main receives, with rows keyed by column name and the ID and Term of a
\* row as plain str
keyed(df) ==
    [columns |-> df.columns,
     rows |-> [i \in 1..Len(df.rows) |->
                 [c \in {df.columns[j] : j \in 1..Len(df.columns)} |->
                    LET j == CHOOSE k \in 1..Len(df.columns) : df.columns[k] = c
                    IN  IF c \in {"ID", "Term"} THEN df.rows[i][j][2]
                        ELSE df.rows[i][j]]]]

\* Column names of hand_dataset.csv: the required six, all eight, aliases only, one
\* alias among canonical names, one name missing, and a spare column beside the six
FileColumns ==
    { <<"ID", "Term", "Pos X", "Pos Y", "Pos Z", "First reaction time">>,
      HandColumns,
      <<"participant", "Slovo", "x", "pos_y", "Z", "První reakce">>,
      <<"ID", "Term", "x", "Pos Y", "Pos Z", "First reaction time">>,
      <<"ID", "Term", "Pos X", "Pos Z", "First reaction time">>,
      <<"ID", "Term", "Pos X", "Pos Y", "Pos Z", "First reaction time", "Notes">>,
      <<"ID", "Term", "Pos X", "Pos Y", "Pos Z", "First reaction time", "x">> }

\* What the Pos X of a line of the file may hold
FilePositions == { <<5>>, NaN, <<"str", "1.5">>, <<"str", "abc">> }

\* The cell of line i under the column named c
FileCell(c, i, term, px) ==
    IF c \in {"ID", "participant"} THEN <<"str", ParticipantIds[i]>>
    ELSE IF c \in {"Term", "Slovo"} THEN <<"str", term>>
    ELSE IF c = "Pos X" THEN px
    ELSE IF c = "Notes" THEN <<"str", "abc">>
    ELSE <<10 * i>>

HandFiles ==
    { [error |-> e, data |-> EmptyFrame] : e \in {"FileNotFoundError", "ParserError"} }
    \cup
    UNION { { [error |-> "",
               data |-> [columns |-> cols,
                         rows |-> [i \in 1..n |->
                                     [j \in 1..Len(cols) |->
                                        FileCell(cols[j], i, t[i], p[i])]]]] :
              cols \in FileColumns, t \in [1..n -> Terms],
              p \in [1..n -> FilePositions] } : n \in 0..MaxHand }

\* vybrana_slova_30.csv: unreadable, complete, without rows, without Arousal, and
\* without a column for the word
BaselineFiles ==
    { [error |-> "EmptyDataError", data |-> EmptyFrame],
      [error |-> "",
       data |-> [columns |-> <<"Word", "Valence", "Arousal">>,
                 rows |-> << BaseRow("Word", "radostný",
                                     <<<<"pozitivní">>, <<"vysoký">>>>) >>]],
      [error |-> "",
       data |-> [columns |-> <<"Word", "Valence", "Arousal">>, rows |-> <<>>]],
      [error |-> "",
       data |-> [columns |-> <<"Word", "Valence">>,
                 rows |-> << ("Word" :> "radostný") @@ ("Valence" :> <<"pozitivní">>) >>]],
      [error |-> "",
       data |-> [columns |-> <<"Valence", "Arousal">>,
                 rows |-> << ("Valence" :> <<"pozitivní">>)
                             @@ ("Arousal" :> <<"vysoký">>) >>]] }

InitLoad ==
    /\ vybrana \in BaselineFiles
    /\ df_in \in HandFiles
    /\ hand_df = EmptyFrame
    /\ deltas_all = EmptyFrame
    /\ user_data = EmptyFrame
    /\ analysis = EmptyDict
    /\ thematic_df = EmptyFrame
    /\ matching_quotes = <<>>
    /\ insights = <<>>
    /\ df_out = EmptyFrame
    /\ selected_id = NaN
    /\ stats = EmptyDict
    /\ pc = "start"

\* app.py lines 60-64: both files are read; st.stop() when either read gave None
ReadCsvFiles ==
    /\ pc = "start"
    /\ vybrana' = safe_read_csv(vybrana)
    /\ df_in' = safe_read_csv(df_in)
    /\ pc' = IF vybrana' = NaN \/ df_in' = NaN THEN "stopped" ELSE "read"
    /\ UNCHANGED <<hand_df, deltas_all, user_data, analysis>>
    /\ UNCHANGED <<thematic_df, matching_quotes, insights, df_out>>
    /\ UNCHANGED <<selected_id, stats>>

\* app.py lines 70-71
ValidateBaseline ==
    /\ pc = "read"
    /\ pc' = IF validate_data_structure(vybrana, vybrana_required, "baseline dataset")
             THEN "baseline checked" ELSE "stopped"
    /\ UNCHANGED <<hand_df, vybrana, deltas_all, user_data, analysis>>
    /\ UNCHANGED <<thematic_df, matching_quotes, insights, df_in, df_out>>
    /\ UNCHANGED <<selected_id, stats>>

\* app.py lines 72-73
ValidateHand ==
    /\ pc = "baseline checked"
    /\ pc' = IF checked_hand(df_in) THEN "checked" ELSE "stopped"
    /\ UNCHANGED <<hand_df, vybrana, deltas_all, user_data, analysis>>
    /\ UNCHANGED <<thematic_df, matching_quotes, insights, df_in, df_out>>
    /\ UNCHANGED <<selected_id, stats>>

\* app.py lines 76-88 and 95: the placements table is normalized, converted and
\* returned to main; a TypeError of standardize_hand_columns ends main
StandardizeAndReturn ==
    /\ pc = "checked"
    /\ IF raises_TypeError(df_in)
       THEN /\ pc' = "TypeError"
            /\ UNCHANGED <<df_out, hand_df>>
       ELSE /\ df_out' = safe_numeric_conversion(standardize_hand_columns(df_in),
                                                 numeric_cols)
            /\ hand_df' = keyed(df_out')
            /\ pc' = "loaded"
    /\ UNCHANGED <<vybrana, deltas_all, user_data, analysis>>
    /\ UNCHANGED <<thematic_df, matching_quotes, insights, df_in>>
    /\ UNCHANGED <<selected_id, stats>>

NextLoad ==
    \/ ReadCsvFiles
    \/ ValidateBaseline
    \/ ValidateHand
    \/ StandardizeAndReturn
    \/ ComputeDeltas

SpecLoad == InitLoad /\ [][NextLoad]_vars

-----------------------------------------------------------------------------
\* Properties of compute_deltas.

\* The baseline rows whose word equals term
BaselineMatches(term) ==
    LET wc == vybrana.columns[1]
    IN  {j \in 1..Len(vybrana.rows) : vybrana.rows[j][wc] = term}

\* The output rows that carry placement i
OutputRowsOf(i) ==
    {k \in 1..Len(deltas_all.rows) :
        \A c \in DOMAIN hand_df.rows[i] : deltas_all.rows[k][c] = hand_df.rows[i][c]}

\* C1: in every row returned by compute_deltas whose baseline_valence and
\* baseline_arousal are non-null, delta_valence is Pos X minus baseline_valence and
\* delta_arousal is Pos Z minus baseline_arousal (a missing position gives a missing
\* delta); Pos X = 0.5 on 'pozitivní' gives -0.5 and Pos X = -0.3 on 'negativní' 0.7.
C1_DeltaIsPositionMinusBaseline ==
    pc = "deltas" =>
        \A k \in 1..Len(deltas_all.rows) :
            LET r == deltas_all.rows[k]
                bv == r["baseline_valence"]
                ba == r["baseline_arousal"]
            IN  (bv # NaN /\ ba # NaN) =>
                  /\ IF r["Pos X"] = NaN THEN r["delta_valence"] = NaN
                     ELSE r["delta_valence"] = <<r["Pos X"][1] - bv[1]>>
                  /\ IF r["Pos Z"] = NaN THEN r["delta_arousal"] = NaN
                     ELSE r["delta_arousal"] = <<r["Pos Z"][1] - ba[1]>>
                  /\ (r["Pos X"] = <<5>> /\ r["Valence"] = <<"pozitivní">>)
                        => r["delta_valence"] = <<-5>>
                  /\ (r["Pos X"] = <<-3>> /\ r["Valence"] = <<"negativní">>)
                        => r["delta_valence"] = <<7>>

C1_Witness ==
    /\ pc = "deltas"
    /\ \E k \in 1..Len(deltas_all.rows) :
          /\ deltas_all.rows[k]["Term"] = "radostný"
          /\ deltas_all.rows[k]["Pos X"] = <<5>>
          /\ deltas_all.rows[k]["Valence"] = <<"pozitivní">>
          /\ deltas_all.rows[k]["Arousal"] = <<"vysoký">>
          /\ deltas_all.rows[k]["delta_valence"] = <<-5>>
          /\ deltas_all.rows[k]["delta_arousal"] = <<-22>>
    /\ \E k \in 1..Len(deltas_all.rows) :
          /\ deltas_all.rows[k]["Pos X"] = <<-3>>
          /\ deltas_all.rows[k]["Valence"] = <<"negativní">>
          /\ deltas_all.rows[k]["delta_valence"] = <<7>>

\* C2: compute_deltas is a left join: every placement row appears in the output even
\* when its Term matches no baseline word, and each such unmatched row has
\* baseline_valence, baseline_arousal, delta_valence and delta_arousal all null.
C2_LeftJoinKeepsUnmatched ==
    pc = "deltas" =>
        \A i \in 1..Len(hand_df.rows) :
            /\ OutputRowsOf(i) # {}
            /\ BaselineMatches(hand_df.rows[i]["Term"]) = {} =>
                  \A k \in OutputRowsOf(i) :
                      /\ deltas_all.rows[k]["baseline_valence"] = NaN
                      /\ deltas_all.rows[k]["baseline_arousal"] = NaN
                      /\ deltas_all.rows[k]["delta_valence"] = NaN
                      /\ deltas_all.rows[k]["delta_arousal"] = NaN

C2_Witness ==
    /\ pc = "deltas"
    /\ Len(vybrana.rows) > 0
    /\ \E i \in 1..Len(hand_df.rows) :
          /\ hand_df.rows[i]["Term"] = "neznámé"
          /\ hand_df.rows[i]["Pos X"] # NaN
          /\ BaselineMatches("neznámé") = {}
          /\ \E k \in OutputRowsOf(i) : deltas_all.rows[k]["delta_valence"] = NaN

\* The six keys of each categorical map, as the documentation lists them
ValenceKeys ==
    {"negativní", "neutrální", "pozitivní", "Negativní", "Neutrální", "Pozitivní"}

ArousalKeys == {"nízký", "strední", "vysoký", "Nízký", "Strední", "Vysoký"}

\* C3 as stated: a Delta Record's baseline fields are null if and only if its Term
\* has no matching Baseline Label; a row whose Term matches a baseline row never has
\* a null baseline field.
C3_NullIffUnmatched ==
    pc = "deltas" =>
        \A k \in 1..Len(deltas_all.rows) :
            LET r == deltas_all.rows[k]
            IN  (r["baseline_valence"] = NaN \/ r["baseline_arousal"] = NaN)
                    <=> BaselineMatches(r["Term"]) = {}

\* C3 as amended: baseline_valence is null if and only if the row's Term has no
\* matching Baseline Label or the matched row's Valence label is not a key of the
\* valence map; likewise baseline_arousal with the Arousal label and the arousal map.
C3_NullIffUnmatchedOrUnknownLabel ==
    pc = "deltas" =>
        \A k \in 1..Len(deltas_all.rows) :
            LET r == deltas_all.rows[k]
                js == BaselineMatches(r["Term"])
            IN  /\ js # {} =>
                      \E j \in js : /\ r["Valence"] = vybrana.rows[j]["Valence"]
                                    /\ r["Arousal"] = vybrana.rows[j]["Arousal"]
                /\ r["baseline_valence"] = NaN <=>
                      \/ js = {}
                      \/ r["Valence"] = NaN
                      \/ r["Valence"][1] \notin ValenceKeys
                /\ r["baseline_arousal"] = NaN <=>
                      \/ js = {}
                      \/ r["Arousal"] = NaN
                      \/ r["Arousal"][1] \notin ArousalKeys

C3_Witness ==
    /\ pc = "deltas"
    /\ \E k \in 1..Len(deltas_all.rows) :
          /\ BaselineMatches(deltas_all.rows[k]["Term"]) # {}
          /\ deltas_all.rows[k]["Valence"] = <<"POZITIVNÍ">>
          /\ deltas_all.rows[k]["baseline_valence"] = NaN
          /\ deltas_all.rows[k]["baseline_arousal"] # NaN
    /\ \E k \in 1..Len(deltas_all.rows) :
          /\ BaselineMatches(deltas_all.rows[k]["Term"]) = {}
          /\ deltas_all.rows[k]["baseline_valence"] = NaN

\* The documented value of a label: the six keys of a map, anything else null
DocumentedValence(label) ==
    IF label \in {<<"negativní">>, <<"Negativní">>} THEN <<-10>>
    ELSE IF label \in {<<"neutrální">>, <<"Neutrální">>} THEN <<0>>
    ELSE IF label \in {<<"pozitivní">>, <<"Pozitivní">>} THEN <<10>>
    ELSE NaN

DocumentedArousal(label) ==
    IF label \in {<<"nízký">>, <<"Nízký">>} THEN <<10>>
    ELSE IF label \in {<<"strední">>, <<"Strední">>} THEN <<20>>
    ELSE IF label \in {<<"vysoký">>, <<"Vysoký">>} THEN <<30>>
    ELSE NaN

\* C4: the lookup of compute_deltas maps exactly the six Arousal keys to 1/2/3 and
\* exactly the six Valence keys to -1/0/1; any other label (other capitalizations
\* included) maps to null, never to 0. Every baseline row matched by a placement
\* reaches the output with its labels mapped that way.
C4_CategoricalLookup ==
    pc = "deltas" =>
        /\ \A k \in 1..Len(deltas_all.rows) :
              /\ deltas_all.rows[k]["baseline_valence"]
                    = DocumentedValence(deltas_all.rows[k]["Valence"])
              /\ deltas_all.rows[k]["baseline_arousal"]
                    = DocumentedArousal(deltas_all.rows[k]["Arousal"])
        /\ \A i \in 1..Len(hand_df.rows) :
              \A j \in BaselineMatches(hand_df.rows[i]["Term"]) :
                  \E k \in OutputRowsOf(i) :
                      /\ deltas_all.rows[k]["Valence"] = vybrana.rows[j]["Valence"]
                      /\ deltas_all.rows[k]["Arousal"] = vybrana.rows[j]["Arousal"]

C4_Witness ==
    /\ pc = "deltas"
    /\ \E k \in 1..Len(deltas_all.rows) :
          /\ deltas_all.rows[k]["Valence"] = <<"Negativní">>
          /\ deltas_all.rows[k]["baseline_valence"] = <<-10>>
          /\ deltas_all.rows[k]["Arousal"] = <<"VYSOKÝ">>
          /\ deltas_all.rows[k]["baseline_arousal"] = NaN

\* C5 as stated: compute_deltas returns exactly one Delta Record per Placement
\* Record, for every baseline table (one where a word appears in more than one
\* baseline row included).
C5_OneRowPerPlacement ==
    pc = "deltas" => Len(deltas_all.rows) = Len(hand_df.rows)

\* Whether the lowercased name of a baseline column contains one of the four aliases
HasWordAlias(c) ==
    \E k \in {"prídav", "adjekt", "slovo", "word"} : contains(Chars[k], lower(Chars[c]))

\* The join key of the claim: an alias column with no alias column before it, or,
\* when no column has an alias, the first column
IsJoinKey(j) ==
    \/ /\ HasWordAlias(vybrana.columns[j])
       /\ \A i \in 1..(j - 1) : ~HasWordAlias(vybrana.columns[i])
    \/ /\ j = 1
       /\ \A i \in 1..Len(vybrana.columns) : ~HasWordAlias(vybrana.columns[i])

\* C23: compute_deltas joins Term against the baseline column chosen by
\* _detect_word_col: the first column, in column order, whose lowercased name
\* contains pridav, adjekt, slovo or word (with the Czech letters), and the first
\* column of the table when no name contains one, whatever that column is.
C23_JoinKeyIsDetectedWordColumn ==
    /\ pc = "deltas" =>
          \E j \in 1..Len(vybrana.columns) :
             /\ IsJoinKey(j)
             /\ deltas_all.columns[Len(hand_df.columns) + j] = "Word"
             /\ \A i \in 1..Len(hand_df.rows) :
                   LET found == {b \in 1..Len(vybrana.rows) :
                                    vybrana.rows[b][vybrana.columns[j]]
                                       = hand_df.rows[i]["Term"]}
                   IN  /\ Cardinality(OutputRowsOf(i))
                             = IF found = {} THEN 1 ELSE Cardinality(found)
                       /\ \A k \in OutputRowsOf(i) :
                             IF found = {} THEN deltas_all.rows[k]["Word"] = NaN
                             ELSE deltas_all.rows[k]["Word"] = hand_df.rows[i]["Term"]
    /\ pc = "KeyError" =>
          \E j \in 1..Len(vybrana.columns) :
             IsJoinKey(j) /\ vybrana.columns[j] \in {"Valence", "Arousal"}

C23_Witness ==
    /\ pc = "deltas"
    /\ vybrana.columns = <<"Adjektivum", "Slovo", "Valence", "Arousal">>
    /\ Len(vybrana.rows) = 2
    /\ vybrana.rows[1]["Adjektivum"] = "radostný"
    /\ vybrana.rows[1]["Slovo"] = "smutný"
    /\ vybrana.rows[2]["Adjektivum"] = "radostný"
    /\ hand_df.rows[1]["Term"] = "radostný"
    /\ Len(deltas_all.rows) = 2
    /\ deltas_all.rows[1]["delta_valence"] = <<-5>>

\* The columns compute_deltas adds, besides those of the baseline table
AddedColumns == <<"baseline_arousal", "baseline_valence", "delta_valence", "delta_arousal">>

\* The returned table holds the placements' columns first and unchanged, then the
\* baseline table's, then the four added ones: none stands for dominance
ColumnsOfOutput ==
    /\ Len(deltas_all.columns) = Len(hand_df.columns) + Len(vybrana.columns) + 4
    /\ SubSeq(deltas_all.columns, 1, Len(hand_df.columns)) = hand_df.columns
    /\ SubSeq(deltas_all.columns, Len(deltas_all.columns) - 3, Len(deltas_all.columns))
          = AddedColumns
    /\ \A k \in 1..Len(deltas_all.rows) :
          DOMAIN deltas_all.rows[k] = {deltas_all.columns[j] : j \in 1..Len(deltas_all.columns)}

\* Output row k holds placement i in every column of the placements table
Carries(k, i) ==
    \A j \in 1..Len(hand_df.columns) :
        deltas_all.rows[k][hand_df.columns[j]] = hand_df.rows[i][hand_df.columns[j]]

\* Every output row carries one placement, every placement is carried, in input order
PlacementsCarried ==
    /\ \A k \in 1..Len(deltas_all.rows) : \E i \in 1..Len(hand_df.rows) : Carries(k, i)
    /\ \A i \in 1..Len(hand_df.rows) : \E k \in 1..Len(deltas_all.rows) : Carries(k, i)
    /\ \A k1, k2 \in 1..Len(deltas_all.rows) :
          k1 < k2 => deltas_all.rows[k1]["Order"][1] <= deltas_all.rows[k2]["Order"][1]

\* C25: a call of compute_deltas changes neither the placements table nor the baseline
\* table it was given; each row it returns carries its placement's ID, Term, Pos X,
\* Pos Y, Pos Z, reaction times and Order with their input values; and the only columns
\* it adds to those of the two tables are baseline_arousal, baseline_valence,
\* delta_valence and delta_arousal, none of them for dominance (Pos Y).
C25_FrameOfComputeDeltas ==
    [][ (pc = "loaded" /\ pc' = "deltas") =>
            /\ hand_df' = hand_df
            /\ vybrana' = vybrana
            /\ ColumnsOfOutput'
            /\ PlacementsCarried' ]_vars

C25_Witness ==
    /\ pc = "deltas"
    /\ Len(hand_df.rows) = 2
    /\ Len(deltas_all.rows) = 3
    /\ deltas_all.rows[1]["Pos Y"] = <<2>>
    /\ deltas_all.rows[3]["ID"] = "TEST002"
    /\ deltas_all.rows[3]["Pos X"] = NaN
    /\ deltas_all.rows[3]["delta_valence"] = NaN

-----------------------------------------------------------------------------
\* Properties of analyze_user_strategy.

\* The non-missing values of a column of user_data, in row order
KnownValues(col) ==
    LET idx == SelectSeq([i \in 1..Len(user_data.rows) |-> i],
                         LAMBDA i : user_data.rows[i][col] # NaN)
    IN  [k \in 1..Len(idx) |-> user_data.rows[idx[k]][col][1]]

\* max - min of a non-empty sequence: its greatest pairwise difference
Spread(xs) ==
    CHOOSE d \in {xs[i] - xs[j] : i, j \in 1..Len(xs)} :
        \A i, j \in 1..Len(xs) : d >= xs[i] - xs[j]

\* Sum over the pairs i < j of (xs[i] - xs[j]) * (ys[i] - ys[j]), which is
\* n * sum((x - mean(x)) * (y - mean(y))) for sequences of length n
PairSum(xs, ys) ==
    LET n == Len(xs)
    IN  SumInts([k \in 1..(n * n) |->
                   (xs[((k - 1) \div n) + 1] - xs[((k - 1) % n) + 1])
                 * (ys[((k - 1) \div n) + 1] - ys[((k - 1) % n) + 1])]) \div 2

UserColumnSet == {user_data.columns[j] : j \in 1..Len(user_data.columns)}

\* C6: valence is classified by range_v = max - min of delta_valence with strict
\* cutoffs: range_v > 1.5 gives DEPTH_VAL/strong, 0.8 < range_v <= 1.5 gives
\* DEPTH_VAL/mild, range_v <= 0.8 gives neutral/minimal (exactly 0.8 is neutral,
\* exactly 1.5 is mild).
C6_ValenceCutoffs ==
    (pc = "analyzed" /\ KnownValues("delta_valence") # <<>>) =>
        LET range_v == Spread(KnownValues("delta_valence"))
        IN  /\ range_v > 15 =>
                  /\ analysis["valence_strategy"] = "DEPTH_VAL"
                  /\ analysis["valence_strength"] = "silné"
            /\ (range_v > 8 /\ range_v <= 15) =>
                  /\ analysis["valence_strategy"] = "DEPTH_VAL"
                  /\ analysis["valence_strength"] = "mírné"
            /\ range_v <= 8 =>
                  /\ analysis["valence_strategy"] = "neutral"
                  /\ analysis["valence_strength"] = "minimální"

C6_Witness ==
    /\ pc = "analyzed"
    /\ KnownValues("delta_valence") # <<>>
    /\ Spread(KnownValues("delta_valence")) = 8
    /\ analysis["valence_strategy"] = "neutral"
    /\ analysis["valence_strength"] = "minimální"

\* C7: arousal is classified by the range of delta_arousal with the same strict
\* cutoffs, whatever the valence result: range > 1.5 gives VERT_INT/strong,
\* 0.8 < range <= 1.5 gives VERT_INT/mild, range <= 0.8 gives neutral/minimal.
C7_ArousalCutoffs ==
    (pc = "analyzed" /\ KnownValues("delta_arousal") # <<>>) =>
        LET range_a == Spread(KnownValues("delta_arousal"))
        IN  /\ range_a > 15 =>
                  /\ analysis["arousal_strategy"] = "VERT_INT"
                  /\ analysis["arousal_strength"] = "silné"
            /\ (range_a > 8 /\ range_a <= 15) =>
                  /\ analysis["arousal_strategy"] = "VERT_INT"
                  /\ analysis["arousal_strength"] = "mírné"
            /\ range_a <= 8 =>
                  /\ analysis["arousal_strategy"] = "neutral"
                  /\ analysis["arousal_strength"] = "minimální"

C7_Witness ==
    /\ pc = "analyzed"
    /\ KnownValues("delta_arousal") # <<>>
    /\ Spread(KnownValues("delta_arousal")) = 15
    /\ analysis["arousal_strategy"] = "VERT_INT"
    /\ analysis["arousal_strength"] = "mírné"
    /\ analysis["valence_strategy"] = "DEPTH_VAL"
    /\ analysis["valence_strength"] = "silné"

\* Whether the Pearson correlation r of Order and First reaction time is defined, and
\* how r compares with 0.3 and -0.3: r = Cxy / sqrt(Cxx * Cyy)
OrderValues == KnownValues("Order")

TimeValues == KnownValues("First reaction time")

CorrelationDefined ==
    /\ {"Order", "First reaction time"} \subseteq UserColumnSet
    /\ Len(OrderValues) = Len(user_data.rows)
    /\ Len(TimeValues) = Len(user_data.rows)
    /\ PairSum(OrderValues, OrderValues) > 0
    /\ PairSum(TimeValues, TimeValues) > 0

CorrelationAbove03 ==
    /\ PairSum(OrderValues, TimeValues) > 0
    /\ 100 * PairSum(OrderValues, TimeValues) * PairSum(OrderValues, TimeValues)
          > 9 * PairSum(OrderValues, OrderValues) * PairSum(TimeValues, TimeValues)

CorrelationBelowMinus03 ==
    /\ PairSum(OrderValues, TimeValues) < 0
    /\ 100 * PairSum(OrderValues, TimeValues) * PairSum(OrderValues, TimeValues)
          > 9 * PairSum(OrderValues, OrderValues) * PairSum(TimeValues, TimeValues)

StrictlyIncreasingTimes ==
    /\ {"Order", "First reaction time"} \subseteq UserColumnSet
    /\ Len(user_data.rows) = 5
    /\ \A i \in 1..5 : user_data.rows[i]["Order"] = <<i>>
    /\ \A i \in 1..5 : user_data.rows[i]["First reaction time"] # NaN
    /\ \A i \in 1..4 : user_data.rows[i]["First reaction time"][1]
                          < user_data.rows[i + 1]["First reaction time"][1]

\* C8: with Order and First reaction time available, speed_pattern follows their
\* Pearson correlation r with strict cutoffs: r > 0.3 gives FATIGUE, r < -0.3 gives
\* SYS_DEV, -0.3 <= r <= 0.3 gives stable; Order 1..5 with strictly increasing
\* First reaction time is FATIGUE.
C8_SpeedCutoffs ==
    pc = "analyzed" =>
        /\ CorrelationDefined =>
              /\ CorrelationAbove03 => analysis["speed_pattern"] = "FATIGUE"
              /\ CorrelationBelowMinus03 => analysis["speed_pattern"] = "SYS_DEV"
              /\ (~CorrelationAbove03 /\ ~CorrelationBelowMinus03)
                    => analysis["speed_pattern"] = "stable"
        /\ StrictlyIncreasingTimes => analysis["speed_pattern"] = "FATIGUE"

C8_Witness ==
    /\ pc = "analyzed"
    /\ StrictlyIncreasingTimes
    /\ CorrelationDefined
    /\ CorrelationAbove03
    /\ analysis["speed_pattern"] = "FATIGUE"

\* C9 as stated, for tables that carry First reaction time (a required column of the
\* placements table): the profile has a speed_pattern entry exactly when the
\* participant's data has an Order column with at least 2 points.
C9_SpeedPatternIffOrderWithTwoPoints ==
    (/\ pc = "analyzed"
     /\ Len(user_data.rows) > 0
     /\ "First reaction time" \in UserColumnSet) =>
        ("speed_pattern" \in DOMAIN analysis
            <=> ("Order" \in UserColumnSet /\ Len(user_data.rows) >= 2))

\* std < 0.3 and std > 1.0 of a sequence of values; the sample variance of n >= 2
\* values is PairSum / (n * (n - 1)), and undefined below two values
DeviationBelow03(xs) ==
    Len(xs) >= 2 /\ PairSum(xs, xs) < 9 * Len(xs) * (Len(xs) - 1)

DeviationAbove10(xs) ==
    Len(xs) >= 2 /\ PairSum(xs, xs) > 100 * Len(xs) * (Len(xs) - 1)

\* C10: consistency follows the standard deviations of delta_valence and
\* delta_arousal: both < 0.3 gives MEM_REF; otherwise either > 1.0 gives IND_DIFF;
\* otherwise moderate. The cutoffs are strict, and exactly one of the three labels is
\* assigned for non-empty input.
C10_ConsistencyCutoffs ==
    (pc = "analyzed" /\ Len(user_data.rows) > 0) =>
        LET v == KnownValues("delta_valence")
            a == KnownValues("delta_arousal")
        IN  /\ "consistency" \in DOMAIN analysis
            /\ analysis["consistency"] =
                  IF DeviationBelow03(v) /\ DeviationBelow03(a) THEN "MEM_REF"
                  ELSE IF DeviationAbove10(v) \/ DeviationAbove10(a) THEN "IND_DIFF"
                  ELSE "moderate"

C10_Witness ==
    /\ pc = "analyzed"
    /\ LET v == KnownValues("delta_valence")
           a == KnownValues("delta_arousal")
       IN  /\ Len(v) >= 2
           /\ PairSum(v, v) = 9 * Len(v) * (Len(v) - 1)
           /\ DeviationBelow03(a)
    /\ analysis["consistency"] = "moderate"

\* The non-missing values of a column of deltas_all, in row order
PopulationValues(col) ==
    LET idx == SelectSeq([i \in 1..Len(deltas_all.rows) |-> i],
                         LAMBDA i : deltas_all.rows[i][col] # NaN)
    IN  [k \in 1..Len(idx) |-> deltas_all.rows[idx[k]][col][1]]

\* d is the fraction sum(us)/Len(us) - sum(ps)/Len(ps), undefined (NaN) when either
\* sequence is empty
IsMeanDifference(d, us, ps) ==
    IF us = <<>> \/ ps = <<>> THEN d = NaN
    ELSE /\ d # NaN
         /\ d[2] > 0
         /\ d[1] * Len(us) * Len(ps)
               = (SumInts(us) * Len(ps) - SumInts(ps) * Len(us)) * d[2]

\* C11: for non-empty participant data the profile's population_comparison holds
\* valence_vs_pop = mean(participant delta_valence) - mean(population delta_valence)
\* and the same for arousal, signed and unrounded, the population means being those
\* of the deltas_all table of the same call.
C11_PopulationComparison ==
    (pc = "analyzed" /\ Len(user_data.rows) > 0) =>
        /\ "population_comparison" \in DOMAIN analysis
        /\ IsMeanDifference(analysis["population_comparison"].valence_vs_pop,
                            KnownValues("delta_valence"),
                            PopulationValues("delta_valence"))
        /\ IsMeanDifference(analysis["population_comparison"].arousal_vs_pop,
                            KnownValues("delta_arousal"),
                            PopulationValues("delta_arousal"))

C11_Witness ==
    /\ pc = "analyzed"
    /\ Len(user_data.rows) > 1
    /\ "population_comparison" \in DOMAIN analysis
    /\ analysis["population_comparison"].valence_vs_pop # NaN
    /\ analysis["population_comparison"].valence_vs_pop[1] < 0
    /\ analysis["population_comparison"].arousal_vs_pop # NaN
    /\ analysis["population_comparison"].arousal_vs_pop[1] > 0

\* The participant has a single row, or no delta value at all
UndefinedStatistics ==
    /\ Len(user_data.rows) > 0
    /\ \/ Len(user_data.rows) = 1
       \/ /\ KnownValues("delta_valence") = <<>>
          /\ KnownValues("delta_arousal") = <<>>

DefaultBuckets ==
    /\ analysis["valence_strategy"] = "neutral"
    /\ analysis["valence_strength"] = "minimální"
    /\ analysis["arousal_strategy"] = "neutral"
    /\ analysis["arousal_strength"] = "minimální"
    /\ analysis["consistency"] = "moderate"

\* C29 as stated: for a participant with a single row, or whose delta values are all
\* missing, the profile has valence and arousal neutral/minimal, consistency moderate
\* and, when the Order and First reaction time columns are present, speed_pattern
\* stable.
C29_UndefinedStatisticsGiveDefaults ==
    (pc = "analyzed" /\ UndefinedStatistics) =>
        /\ DefaultBuckets
        /\ {"Order", "First reaction time"} \subseteq UserColumnSet
              => analysis["speed_pattern"] = "stable"

\* C29, amended: for a participant with a single row, or whose delta values are all
\* missing, the profile has valence and arousal neutral/minimal and consistency
\* moderate, and nothing is raised. With the Order and First reaction time columns
\* present, speed_pattern is stable whenever the correlation is undefined, as it is
\* for a single row; for several rows it follows the correlation of Order and First
\* reaction time whether or not the deltas are missing.
C29_DefaultsAndSpeedByCorrelation ==
    (pc = "analyzed" /\ UndefinedStatistics) =>
        /\ DefaultBuckets
        /\ {"Order", "First reaction time"} \subseteq UserColumnSet =>
              /\ "speed_pattern" \in DOMAIN analysis
              /\ (Len(user_data.rows) = 1 \/ ~CorrelationDefined)
                    => analysis["speed_pattern"] = "stable"
              /\ (CorrelationDefined /\ CorrelationAbove03)
                    => analysis["speed_pattern"] = "FATIGUE"
              /\ (CorrelationDefined /\ CorrelationBelowMinus03)
                    => analysis["speed_pattern"] = "SYS_DEV"

C29_Witness ==
    /\ pc = "analyzed"
    /\ Len(user_data.rows) = 3
    /\ KnownValues("delta_valence") = <<>>
    /\ KnownValues("delta_arousal") = <<>>
    /\ TimeValues = <<10, 20, 30>>
    /\ DefaultBuckets
    /\ analysis["speed_pattern"] = "FATIGUE"

-----------------------------------------------------------------------------
\* Properties of get_matching_quotes and generate_qualitative_insights.

\* A list of quote entries: a finite sequence of dicts with the four keys
IsQuoteList(qs) ==
    /\ DOMAIN qs = 1..Len(qs)
    /\ \A i \in 1..Len(qs) : DOMAIN qs[i] = {"theme", "definition", "quote", "code"}

\* C12: empty participant data does not raise: analyze_user_strategy on a table of
\* zero rows returns a profile without keys, and get_matching_quotes, given that
\* profile and any thematic table, completes and returns a list of quote entries
\* (possibly the fallback entries).
C12_EmptyDataHandled ==
    Len(user_data.rows) = 0 =>
        /\ pc # "selected" => DOMAIN analysis = {}
        /\ pc = "analyzed" => ENABLED GetMatchingQuotes
        /\ pc \in {"matched", "reported"} =>
              /\ IsQuoteList(matching_quotes)
              /\ \A i \in 1..Len(matching_quotes) :
                    matching_quotes[i].code \in {"DEPTH_VAL", "VERT_INT", "HORIZ_DOM"}

C12_Witness ==
    /\ pc = "matched"
    /\ Len(user_data.rows) = 0
    /\ DOMAIN analysis = {}
    /\ Len(thematic_df.rows) > 0
    /\ Len(matching_quotes) = 2

\* The value of a key of the profile, "absent" for a missing key
ProfileValue(key) == IF key \in DOMAIN analysis THEN analysis[key] ELSE "absent"

\* The codes of the non-default outcomes of the profile
ActiveCodes ==
    {c \in {"DEPTH_VAL"} : ProfileValue("valence_strategy") = c}
    \cup {c \in {"VERT_INT"} : ProfileValue("arousal_strategy") = c}
    \cup {c \in {"FATIGUE", "SYS_DEV"} : ProfileValue("speed_pattern") = c}
    \cup {c \in {"MEM_REF", "IND_DIFF"} : ProfileValue("consistency") = c}

\* The codebook rows (by index) whose code is active, and those of one code
ActiveRows ==
    {i \in 1..Len(thematic_df.rows) : thematic_df.rows[i]["Code"] \in ActiveCodes}

RowsOfCode(code) ==
    {i \in 1..Len(thematic_df.rows) : thematic_df.rows[i]["Code"] = code}

\* The entry that presents codebook row i
EntryOfRow(i) ==
    [theme |-> thematic_df.rows[i]["Subtheme"],
     definition |-> thematic_df.rows[i]["Definition"],
     quote |-> thematic_df.rows[i]["Example quotes"],
     code |-> thematic_df.rows[i]["Code"]]

QuotesReturned == pc \in {"matched", "reported"}

\* C13: get_matching_quotes returns at most 3 entries for every profile and every
\* thematic table, and an empty list for an empty thematic table.
C13_AtMostThreeQuotes ==
    QuotesReturned =>
        /\ Len(matching_quotes) <= 3
        /\ (Len(thematic_df.rows) = 0 \/ Len(thematic_df.columns) = 0)
              => matching_quotes = <<>>

C13_Witness ==
    /\ QuotesReturned
    /\ Cardinality(ActiveRows) > 3
    /\ Len(matching_quotes) = 3

\* The classifier dimension of a code: valence, arousal, speed, consistency
Dimension(code) ==
    CASE code = "DEPTH_VAL" -> 1
      [] code = "VERT_INT" -> 2
      [] code \in {"FATIGUE", "SYS_DEV"} -> 3
      [] code \in {"MEM_REF", "IND_DIFF"} -> 4

\* Whether active row j is listed ahead of active row i: by dimension, then by table order
ListedAhead(j, i) ==
    LET dj == Dimension(thematic_df.rows[j]["Code"])
        di == Dimension(thematic_df.rows[i]["Code"])
    IN  dj < di \/ (dj = di /\ j < i)

PlaceOf(i) == 1 + Cardinality({j \in ActiveRows : ListedAhead(j, i)})

\* C14: when at least one thematic entry matches, the returned entries are the rows
\* whose code is an active code of the profile (DEPTH_VAL, VERT_INT, FATIGUE or
\* SYS_DEV, MEM_REF or IND_DIFF; never neutral, stable or moderate), ordered valence,
\* arousal, speed, consistency, of which only the first 3 in that order are kept.
C14_ActiveCodesInDimensionOrder ==
    (QuotesReturned /\ ActiveRows # {}) =>
        /\ Len(matching_quotes) =
              IF Cardinality(ActiveRows) < 3 THEN Cardinality(ActiveRows) ELSE 3
        /\ \A k \in 1..Len(matching_quotes) : matching_quotes[k].code \in ActiveCodes
        /\ \A i \in ActiveRows :
              PlaceOf(i) <= 3 => matching_quotes[PlaceOf(i)] = EntryOfRow(i)

C14_Witness ==
    /\ QuotesReturned
    /\ Cardinality(ActiveRows) > 3
    /\ matching_quotes[1].code = "FATIGUE"
    /\ matching_quotes[3].code = "IND_DIFF"
    /\ thematic_df.rows[1]["Code"] = "IND_DIFF"

\* The fallback codes that occur in the codebook, in their fixed order
FallbackCodesPresent ==
    SelectSeq(<<"DEPTH_VAL", "VERT_INT", "HORIZ_DOM">>, LAMBDA c : RowsOfCode(c) # {})

FirstRowOfCode(code) ==
    CHOOSE i \in RowsOfCode(code) : \A j \in RowsOfCode(code) : i <= j

\* C15: when no thematic entry matches the active codes of the profile, the result is
\* the first table row of each of DEPTH_VAL, VERT_INT, HORIZ_DOM that occurs in the
\* table, in that order; it is a function of the thematic table alone, so two profiles
\* without a match against the same table receive the same result.
C15_FallbackDependsOnTableOnly ==
    (QuotesReturned /\ ActiveRows = {}) =>
        matching_quotes =
            [k \in 1..Len(FallbackCodesPresent) |->
                EntryOfRow(FirstRowOfCode(FallbackCodesPresent[k]))]

C15_Witness ==
    /\ QuotesReturned
    /\ ActiveCodes # {}
    /\ ActiveRows = {}
    /\ Len(matching_quotes) = 2
    /\ Cardinality(RowsOfCode(matching_quotes[1].code)) > 1
    /\ matching_quotes[2].code = "HORIZ_DOM"

InsightsReturned == pc \in {"reported", "pdf"}

\* The positions of the bullets that open the sentences of the text, and the piece
\* that follows each of them (the heading of the sentence)
BulletPositions ==
    SelectSeq([i \in 1..Len(insights) |-> i],
              LAMBDA i : insights[i] \in {" * ", "\n * "})

HeadingsEmitted == [k \in 1..Len(BulletPositions) |-> insights[BulletPositions[k] + 1]]

\* The headings of the sentences of the non-default classifier outcomes, in order
ClassifierHeadings ==
    (IF ProfileValue("valence_strategy") = "DEPTH_VAL"
     THEN <<"**Valence mapping**: Más ">> ELSE <<>>)
    \o (IF ProfileValue("arousal_strategy") = "VERT_INT"
        THEN <<"**Vertikální intenzita**: ">> ELSE <<>>)
    \o (IF ProfileValue("speed_pattern") = "FATIGUE"
        THEN <<"**Únava behem testování**: Postupne ses zpomaloval, coz je normální pri této délce úkolu.">>
        ELSE IF ProfileValue("speed_pattern") = "SYS_DEV"
        THEN <<"**Systematický prístup**: Postupne ses zrychloval - vyvinul sis efektivní strategii.">>
        ELSE <<>>)
    \o (IF ProfileValue("consistency") = "MEM_REF"
        THEN <<"**Vysoká konzistence**: Pamatujes si své predchozí volby a drzís se jednotné logiky.">>
        ELSE IF ProfileValue("consistency") = "IND_DIFF"
        THEN <<"**Kreativní prístup**: Pouzívás rozmanité, atypické zpusoby umístování slov.">>
        ELSE <<>>)

\* Whether a difference of the population comparison is beyond 0.3 on either side
DifferenceBeyond03(d) == d # NaN /\ (d[1] > 3 * d[2] \/ d[1] < -3 * d[2])

PopulationHeadings ==
    IF "population_comparison" \notin DOMAIN analysis THEN <<>>
    ELSE (IF DifferenceBeyond03(analysis["population_comparison"].valence_vs_pop)
          THEN <<"**Valence odlisnost**: Obecne hodnotís slova ">> ELSE <<>>)
         \o (IF DifferenceBeyond03(analysis["population_comparison"].arousal_vs_pop)
             THEN <<"**Arousal odlisnost**: Vnímás emocní intenzitu ">> ELSE <<>>)

\* C16 as stated: the sentences emitted are exactly those of the non-default
\* classifier outcomes, one each and no other, so their number is the number of
\* non-default classifier dimensions of the profile.
C16_OneSentencePerClassifierOutcome ==
    InsightsReturned =>
        /\ HeadingsEmitted = ClassifierHeadings
        /\ Len(BulletPositions) = Cardinality(ActiveCodes)

\* C16, amended: the sentences emitted are those of the non-default classifier
\* outcomes followed by one sentence for each population difference (valence, then
\* arousal) whose absolute value exceeds 0.3, and no other; their number is the
\* number of non-default dimensions plus the number of such differences, whatever
\* the quotes argument.
C16_ClassifierAndPopulationSentences ==
    InsightsReturned =>
        /\ HeadingsEmitted = ClassifierHeadings \o PopulationHeadings
        /\ Len(BulletPositions) = Cardinality(ActiveCodes) + Len(PopulationHeadings)

C16_Witness ==
    /\ pc = "reported"
    /\ Len(matching_quotes) > 0
    /\ Cardinality(ActiveCodes) = 2
    /\ Len(PopulationHeadings) = 1
    /\ Len(BulletPositions) = 3

ClosingSentence == "* Tvuj prístup je velmi blízký prumeru skupiny."

\* C17: on an empty profile the text is the single closing sentence ("close to
\* average") and nothing else; on a non-empty profile the closing sentence is returned
\* only when no other sentence was produced, and is never combined with another.
C17_ClosingSentenceOnlyAlone ==
    InsightsReturned =>
        /\ DOMAIN analysis = {} => insights = <<ClosingSentence>>
        /\ (\E i \in 1..Len(insights) : insights[i] = ClosingSentence)
              => (insights = <<ClosingSentence>> /\ BulletPositions = <<>>)
        /\ insights = <<ClosingSentence>>
              <=> (ActiveCodes = {} /\ PopulationHeadings = <<>>)

C17_Witness ==
    /\ pc = "reported"
    /\ Len(user_data.rows) > 0
    /\ "population_comparison" \in DOMAIN analysis
    /\ Len(matching_quotes) > 0
    /\ insights = <<ClosingSentence>>

\* The active codes of the profile in the order of their dimensions
ActiveInOrder ==
    SelectSeq(<<"DEPTH_VAL", "VERT_INT", "FATIGUE", "SYS_DEV", "MEM_REF", "IND_DIFF">>,
              LAMBDA c : c \in ActiveCodes)

\* The number of returned entries that carry the code
EntriesOfCode(code) ==
    Cardinality({k \in 1..Len(matching_quotes) : matching_quotes[k].code = code})

\* The number of codebook rows of the active codes listed ahead of the k-th one
RowsAhead(k) ==
    Cardinality({i \in ActiveRows :
                    \E h \in 1..(k - 1) : thematic_df.rows[i]["Code"] = ActiveInOrder[h]})

\* What is left of the three places for the k-th active code, filled with its rows
PlacesFilled(k) ==
    LET rows == Cardinality(RowsOfCode(ActiveInOrder[k]))
        left == IF RowsAhead(k) >= 3 THEN 0 ELSE 3 - RowsAhead(k)
    IN  IF rows < left THEN rows ELSE left

\* C30: get_matching_quotes takes every codebook row of each active code, in dimension
\* order, and only then keeps the first three: each active code fills as many of the
\* three places as it has rows, as far as places are left, so that a first active code
\* with three or more rows takes all three and no later dimension is represented. On
\* the fallback path no code has more than one entry.
C30_EveryRowOfEachActiveCode ==
    QuotesReturned =>
        /\ ActiveRows # {} =>
              /\ \A k \in 1..Len(ActiveInOrder) :
                    EntriesOfCode(ActiveInOrder[k]) = PlacesFilled(k)
              /\ (Cardinality(RowsOfCode(ActiveInOrder[1])) >= 3) =>
                    /\ Len(matching_quotes) = 3
                    /\ \A k \in 1..3 : matching_quotes[k].code = ActiveInOrder[1]
                    /\ Cardinality({matching_quotes[k].quote : k \in 1..3}) = 3
        /\ ActiveRows = {} =>
              \A k \in 1..Len(matching_quotes) :
                  EntriesOfCode(matching_quotes[k].code) = 1

C30_Witness ==
    /\ pc = "matched"
    /\ Len(ActiveInOrder) = 2
    /\ Cardinality(RowsOfCode(ActiveInOrder[1])) = 3
    /\ Cardinality(RowsOfCode(ActiveInOrder[2])) = 1
    /\ Len(matching_quotes) = 3
    /\ \A k \in 1..3 : matching_quotes[k].code = ActiveInOrder[1]

-----------------------------------------------------------------------------
\* Properties of standardize_hand_columns.

\* A table as the function leaves it: canonical names only, numbers or NaN in the
\* numeric columns
IsNormalized(df) ==
    /\ \A j \in 1..Len(df.columns) : df.columns[j] \in CanonicalNames
    /\ \A i \in 1..Len(df.rows) : \A j \in 1..Len(df.columns) :
          df.columns[j] \in NumericColumns => Len(df.rows[i][j]) < 2

\* C18: standardize_hand_columns is idempotent on normalized tables: applied to its
\* own output, or to any table that already has the canonical names and numeric
\* values, it returns the same column names and the same values.
C18_Idempotent ==
    /\ pc = "restandardized" => df_out = df_in
    /\ (pc = "standardized" /\ IsNormalized(df_in)) => df_out = df_in

C18_Witness ==
    /\ pc = "restandardized"
    /\ IsNormalized(df_in)
    /\ df_in.columns = <<"Pos X", "Order">>
    /\ df_in.rows[1][1] = <<15>>
    /\ df_out = df_in

\* Whether the lowercased name contains one of the keywords
ContainsOneOf(name, keywords) ==
    \E k \in keywords : contains(Chars[k], lower(Chars[name]))

\* C19 as stated: every column whose lowercased name contains a keyword of a
\* canonical column is renamed to it: "pos x", "x", "pos_x" or "xpos" give Pos X
\* (likewise Y and Z), and ID, Term, the reaction times and Order are matched by
\* their keywords as substrings in the same way.
C19_SubstringMatchForEveryKeyword ==
    pc = "standardized" =>
        \A j \in 1..Len(df_in.columns) :
            LET name == df_in.columns[j]
                renamed == df_out.columns[j]
            IN  /\ ContainsOneOf(name, {"pos x", "x", "pos_x", "xpos"}) => renamed = "Pos X"
                /\ ContainsOneOf(name, {"pos y", "y", "pos_y", "ypos"}) => renamed = "Pos Y"
                /\ ContainsOneOf(name, {"pos z", "z", "pos_z", "zpos"}) => renamed = "Pos Z"
                /\ ContainsOneOf(name, {"id", "respondent", "participant"}) => renamed = "ID"
                /\ ContainsOneOf(name, {"term", "slovo", "pojem", "word"}) => renamed = "Term"
                /\ ContainsOneOf(name, {"first reaction time", "první"})
                      => renamed = "First reaction time"
                /\ ContainsOneOf(name, {"total reaction time", "celkov"})
                      => renamed = "Total reaction time"
                /\ ContainsOneOf(name, {"poradí", "order", "trial"}) => renamed = "Order"

\* The rules in their order: a name satisfies a rule when its lowercased form equals
\* one of the whole names or contains one of the parts
RenamingRules ==
    << [target |-> "ID", whole |-> {"id", "respondent", "participant"}, part |-> {}],
       [target |-> "Term", whole |-> {"term", "slovo", "pojem", "word"}, part |-> {}],
       [target |-> "Pos X", whole |-> {"x", "pos_x", "xpos"}, part |-> {"pos x"}],
       [target |-> "Pos Y", whole |-> {"y", "pos_y", "ypos"}, part |-> {"pos y"}],
       [target |-> "Pos Z", whole |-> {"z", "pos_z", "zpos"}, part |-> {"pos z"}],
       [target |-> "First reaction time", whole |-> {},
        part |-> {"first reaction time", "první"}],
       [target |-> "Total reaction time", whole |-> {},
        part |-> {"total reaction time", "celkov"}],
       [target |-> "Order", whole |-> {}, part |-> {"poradí", "order", "trial"}] >>

Satisfies(name, rule) ==
    \/ \E k \in rule.whole : lower(Chars[name]) = Chars[k]
    \/ ContainsOneOf(name, rule.part)

ExpectedName(name) ==
    LET hits == {r \in 1..Len(RenamingRules) : Satisfies(name, RenamingRules[r])}
    IN  IF hits = {} THEN name
        ELSE RenamingRules[CHOOSE r \in hits : \A q \in hits : r <= q].target

\* C19, amended: a column is renamed by the first rule, in the order ID, Term, Pos X,
\* Pos Y, Pos Z, First reaction time, Total reaction time, Order, that its lowercased
\* name satisfies: the aliases of ID and Term and the short axis names (x, pos_x,
\* xpos, ...) must equal the whole name, while "pos x" (y, z) and the keywords of the
\* reaction times and of Order may occur anywhere in it; other names are kept.
C19_FirstRuleByWholeNameOrPart ==
    pc = "standardized" =>
        /\ Len(df_out.columns) = Len(df_in.columns)
        /\ \A j \in 1..Len(df_in.columns) :
              df_out.columns[j] = ExpectedName(df_in.columns[j])

C19_Witness ==
    /\ pc = "standardized"
    /\ df_in.columns = <<"Index", "POS X (cm)">>
    /\ df_out.columns = <<"Index", "Pos X">>

\* C20 as stated: whenever the input column names are pairwise distinct, so are the
\* output column names; no two source columns end up under one canonical name.
C20_DistinctNamesStayDistinct ==
    (/\ pc = "standardized"
     /\ \A i, j \in 1..Len(df_in.columns) :
           i # j => df_in.columns[i] # df_in.columns[j]) =>
        \A i, j \in 1..Len(df_out.columns) :
            i # j => df_out.columns[i] # df_out.columns[j]

\* C21 as stated: the function only renames: same number of columns, same order,
\* same rows as the input, every column under the name of the first rule it
\* satisfies (ID, Term, Pos X, Pos Y, Pos Z, First reaction time, Total reaction
\* time, Order) or under its own name when it satisfies none.
C21_OnlyRenames ==
    pc = "standardized" =>
        /\ Len(df_out.columns) = Len(df_in.columns)
        /\ \A j \in 1..Len(df_in.columns) :
              df_out.columns[j] = ExpectedName(df_in.columns[j])
        /\ df_out.rows = df_in.rows

\* The cell a numeric column holds for an input cell: numbers and NaN as they are, a
\* str as the number it spells, NaN when it spells none
Coerced(cell) ==
    IF Len(cell) < 2 THEN cell
    ELSE IF cell[2] = "1.5" THEN <<15>>
    ELSE IF cell[2] = "12" THEN <<120>>
    ELSE NaN

\* C21, amended: the function renames and converts, nothing else: same number of
\* columns in the same order, every column under the name of the first rule it
\* satisfies or under its own name, same number of rows, and every cell as in the
\* input except that the cells of the five numeric columns are converted to numbers.
C21_RenamesAndConvertsOnly ==
    pc = "standardized" =>
        /\ Len(df_out.columns) = Len(df_in.columns)
        /\ \A j \in 1..Len(df_in.columns) :
              df_out.columns[j] = ExpectedName(df_in.columns[j])
        /\ Len(df_out.rows) = Len(df_in.rows)
        /\ \A i \in 1..Len(df_in.rows) :
              /\ Len(df_out.rows[i]) = Len(df_in.rows[i])
              /\ \A j \in 1..Len(df_in.columns) :
                    df_out.rows[i][j] =
                        IF ExpectedName(df_in.columns[j]) \in
                              {"Pos X", "Pos Y", "Pos Z",
                               "First reaction time", "Total reaction time"}
                        THEN Coerced(df_in.rows[i][j])
                        ELSE df_in.rows[i][j]

C21_Witness ==
    /\ pc = "standardized"
    /\ df_in.columns = <<"Notes", "Trial">>
    /\ df_out.columns = <<"Notes", "Order">>
    /\ df_out.rows = df_in.rows

\* C22 as stated: numeric coercion at ingestion never raises, for every input table:
\* standardize_hand_columns returns, with every value of the five numeric columns
\* that parses as a number turned into that number and every other value of them
\* into a missing value, and safe_numeric_conversion likewise; absent columns are
\* skipped and other columns are left untouched.
C22_CoercionNeverRaises ==
    /\ pc # "TypeError"
    /\ pc \in {"standardized", "converted"} =>
          \A i \in 1..Len(df_in.rows) : \A j \in 1..Len(df_in.columns) :
              df_out.rows[i][j] =
                  IF df_out.columns[j] \in NumericColumns
                  THEN Coerced(df_in.rows[i][j])
                  ELSE df_in.rows[i][j]

-----------------------------------------------------------------------------
\* Properties of app.main.

\* m is the fraction sum(xs)/Len(xs), undefined (NaN) when xs is empty
IsMeanOf(m, xs) ==
    IF xs = <<>> THEN m = NaN
    ELSE /\ m # NaN
         /\ m[2] > 0
         /\ m[1] * Len(xs) = SumInts(xs) * m[2]

\* The positions main has passed
DeltasComputed == pc \notin {"loaded", "KeyError"}

StatsComputed ==
    pc \in {"stats", "selected", "analyzed", "matched", "reported", "pdf"}
    \/ (pc = "stopped" /\ stats # EmptyDict)

\* C24: missing values neither raise nor count as zero. Nothing in main raises on a
\* missing position; a placement with a missing Pos X (Pos Z) and a matched baseline
\* value has a missing delta_valence (delta_arousal); and the population means and the
\* participant's means of delta_valence and delta_arousal, in the metrics and in the
\* profile's population_comparison, are the sums of the non-missing values divided by
\* their number, so that a row with missing deltas changes none of them.
C24_NullsNeitherRaiseNorCount ==
    /\ pc \notin {"KeyError", "TypeError"}
    /\ DeltasComputed =>
          \A k \in 1..Len(deltas_all.rows) :
             LET row == deltas_all.rows[k]
             IN  /\ (row["Pos X"] = NaN /\ row["baseline_valence"] # NaN)
                        => row["delta_valence"] = NaN
                 /\ (row["Pos Z"] = NaN /\ row["baseline_arousal"] # NaN)
                        => row["delta_arousal"] = NaN
    /\ StatsComputed =>
          /\ IsMeanOf(stats.overall["delta_valence"], PopulationValues("delta_valence"))
          /\ IsMeanOf(stats.overall["delta_arousal"], PopulationValues("delta_arousal"))
          /\ IsMeanOf(stats.user_val, KnownValues("delta_valence"))
          /\ IsMeanOf(stats.user_ar, KnownValues("delta_arousal"))
    /\ pc \in {"analyzed", "matched", "reported", "pdf"} =>
          /\ IsMeanDifference(analysis["population_comparison"].valence_vs_pop,
                              KnownValues("delta_valence"),
                              PopulationValues("delta_valence"))
          /\ IsMeanDifference(analysis["population_comparison"].arousal_vs_pop,
                              KnownValues("delta_arousal"),
                              PopulationValues("delta_arousal"))

C24_Witness ==
    /\ pc = "analyzed"
    /\ Len(user_data.rows) = 2
    /\ user_data.rows[1]["Pos X"] = NaN
    /\ user_data.rows[1]["baseline_valence"] # NaN
    /\ user_data.rows[1]["delta_valence"] = NaN
    /\ user_data.rows[2]["delta_valence"] # NaN
    /\ stats.user_val = <<user_data.rows[2]["delta_valence"][1], 1>>

\* The requested ID is non-empty and is, as a str, the ID of a row of deltas_all
RequestedIsPresent ==
    /\ selected_id # NaN
    /\ selected_id[1] # ""
    /\ \E k \in 1..Len(deltas_all.rows) : deltas_all.rows[k]["ID"] = selected_id[1]

\* Positions of main behind the check of the requested ID
PastValidation ==
    pc \in {"validated", "subset", "stats", "selected", "analyzed", "matched",
            "reported", "pdf"}

\* Positions of main where a function of the report has been called
ReportStarted == pc \in {"analyzed", "matched", "reported", "pdf"}

\* C26: in main the report is computed only behind the checks. validate_user_id
\* returns True exactly when the requested ID is non-empty and equals, as a str, the ID
\* of a row of the delta table; main goes on only then and only with a non-empty subset
\* of that participant's rows; on every other path it stops with no profile, no quotes
\* and no insights computed, so that analyze_user_strategy, get_matching_quotes and
\* generate_qualitative_insights never see empty participant data.
C26_ReportOnlyBehindChecks ==
    /\ PastValidation => RequestedIsPresent
    /\ (pc = "stopped" /\ user_data = EmptyFrame) => ~RequestedIsPresent
    /\ pc \in {"subset", "stats", "selected"} \cup {"analyzed", "matched", "reported", "pdf"} =>
          /\ Len(user_data.rows) > 0
          /\ \A k \in 1..Len(user_data.rows) : user_data.rows[k]["ID"] = selected_id[1]
    /\ ~ReportStarted =>
          /\ analysis = EmptyDict
          /\ matching_quotes = <<>>
          /\ insights = <<>>

C26_Witness ==
    /\ pc = "reported"
    /\ selected_id = <<"TEST002">>
    /\ Len(deltas_all.rows) = 2
    /\ Len(user_data.rows) = 1
    /\ user_data.rows[1]["ID"] = "TEST002"
    /\ "valence_strategy" \in DOMAIN analysis
    /\ insights # <<>>

-----------------------------------------------------------------------------
\* Properties of app.load_and_process_data.

ColumnSet(df) == {df.columns[j] : j \in 1..Len(df.columns)}

\* The table was read, carries every one of the names and has a row
LoadedWith(df, names) ==
    /\ df # NaN
    /\ names \subseteq ColumnSet(df)
    /\ Len(df.rows) > 0

BaselineNames == {"Valence", "Arousal"}

PlacementNames == {"ID", "Term", "Pos X", "Pos Y", "Pos Z", "First reaction time"}

\* Positions behind both checks of load_and_process_data
PastChecks == pc \in {"checked", "TypeError", "loaded", "deltas", "KeyError"}

\* Neither standardize_hand_columns nor compute_deltas has been called
CoreNotInvoked ==
    /\ pc \notin {"TypeError", "KeyError"}
    /\ df_out = EmptyFrame
    /\ hand_df = EmptyFrame
    /\ deltas_all = EmptyFrame

\* C27: load_and_process_data halts ahead of the core on fatal input.
\* standardize_hand_columns, and compute_deltas after it, are reached only when both
\* files were read and validate_data_structure returned True for both tables, which it
\* does exactly when every required column is present and the table has a row;
\* otherwise it returns False, main stops, and nothing of the core has run.
C27_CoreOnlyAfterValidInput ==
    /\ pc = "baseline checked" => LoadedWith(vybrana, BaselineNames)
    /\ PastChecks =>
          /\ LoadedWith(vybrana, BaselineNames)
          /\ LoadedWith(df_in, PlacementNames)
    /\ pc = "stopped" =>
          ~(LoadedWith(vybrana, BaselineNames) /\ LoadedWith(df_in, PlacementNames))
    /\ ~PastChecks => CoreNotInvoked

C27_Witness ==
    /\ pc = "deltas"
    /\ Len(df_in.rows) = 2
    /\ Len(deltas_all.rows) = 2
    /\ deltas_all.rows[1]["ID"] = "TEST001"
    /\ deltas_all.rows[1]["delta_valence"] # NaN

\* The table has none of the canonical placement names, and standardize_hand_columns
\* would give it every one of them
UsesOnlyAliases(df) ==
    /\ ColumnSet(df) \cap PlacementNames = {}
    /\ \A name \in PlacementNames :
          \E j \in 1..Len(df.columns) : rename_target(df.columns[j]) = name

\* C28: the required-column check of the placements table is made on the names as
\* read, ahead of standardize_hand_columns. A table reaches the normalizer and
\* compute_deltas only when it carries ID, Term, Pos X, Pos Y, Pos Z and First reaction
\* time under those very names; a table that carries them under recognized aliases
\* only is stopped by the check and is never normalized.
C28_CheckOnNamesAsRead ==
    /\ (pc # "start" /\ ~CoreNotInvoked) =>
          /\ df_in # NaN
          /\ PlacementNames \subseteq ColumnSet(df_in)
    /\ (pc # "start" /\ df_in # NaN /\ UsesOnlyAliases(df_in)) =>
          /\ pc \in {"read", "baseline checked", "stopped"}
          /\ CoreNotInvoked

C28_Witness ==
    /\ pc = "stopped"
    /\ LoadedWith(vybrana, BaselineNames)
    /\ df_in # NaN
    /\ Len(df_in.rows) = 2
    /\ UsesOnlyAliases(df_in)
    /\ CoreNotInvoked

====
